---- MODULE Spec2Model ----
(***************************************************************************)
(* The document container (storage/zip_container.rs), the piece table      *)
(* (model/piece_table.rs), the version record (model/version.rs) and the   *)
(* version commands (commands/versioning.rs, commands/document.rs) of      *)
(* yeno, as a state machine over the one file at `path`.                   *)
(*                                                                         *)
(* Representation.  A text is a sequence of one-character strings.  A byte *)
(* string is a sequence of blocks, each block the output of one encoder:   *)
(* [utf8 |-> text], [cbor |-> value], [json |-> value] (compact JSON),     *)
(* [json_pretty |-> value], [br |-> bytes] (brotli) and [raw |-> bytes].   *)
(* Blocks of different encoders are different bytes, a decoder accepts     *)
(* only the blocks of its own format, and SHA-256 and CRC-32 are taken to  *)
(* be collision free: [sha256 |-> bytes], [crc32 |-> bytes].  Option<T> is *)
(* a sequence of length 0 (None) or 1 (Some).  The deflate compression of  *)
(* archive entries is transparent and not represented.                     *)
(***************************************************************************)
EXTENDS Integers, Sequences, FiniteSets, TLC

VARIABLES
    disk,      \* the file at path
    clock,     \* commands issued so far; the reading of Utc::now() and the uuid source
    last,      \* the last command: its name, request, the file before it, its result
    creates,   \* create_version calls so far
    others,    \* whether anything but create_version and delete_version touched the file
    assigned,  \* the versionNumbers given out so far, those of the found file included
    written,   \* who wrote the file at path, the payload written, and tampering since
    origin,    \* the file at path when the behaviour started
    savers,    \* the save_document calls under way, each with its position
    crdt,      \* the CRDT document of the wasm module (a DocState)
    reader     \* a load_document call under way: its position and what it has read

vars == <<disk, clock, last, creates, others, assigned, written, origin, savers, crdt, reader>>

-----------------------------------------------------------------------------
(* Bounds of the model *)

\* number of commands issued in one behaviour
MaxCalls == 2

\* length of the short texts that are diffed, in characters
MaxChars == 3

\* number of lines of the long texts that are diffed
MaxLines == 9

-----------------------------------------------------------------------------
(* Option, Result *)

None == <<>>

Some(x) == <<x>>

Ok(v) == [ok |-> TRUE, val |-> v]

Err(e) == [ok |-> FALSE, err |-> e]

\* the StorageError / VersionError variants the commands can return
IoNotFound == [kind |-> "Io", what |-> "NotFound"]

IoInvalidChecksum == [kind |-> "Io", what |-> "Invalid checksum"]

ZipError(what) == [kind |-> "Zip", what |-> what]

JsonError == [kind |-> "Json", what |-> "parse"]

CborError == [kind |-> "Cbor", what |-> "parse"]

IntegrityCrc(name, expected, actual) ==
    [kind |-> "Integrity", what |-> "crc mismatch",
     entry |-> name, expected |-> expected, actual |-> actual]

IntegrityChecksum(expected, actual) ==
    [kind |-> "Integrity", what |-> "payload checksum mismatch",
     expected |-> expected, actual |-> actual]

NotFound(id) == [kind |-> "NotFound", id |-> id]

-----------------------------------------------------------------------------
(* Sequence helpers *)

RECURSIVE Concat(_)
\* the concatenation of a sequence of byte strings (Vec::extend_from_slice)
Concat(ss) == IF ss = <<>> THEN <<>> ELSE Head(ss) \o Concat(Tail(ss))

Max(S, default) == IF S = {} THEN default ELSE CHOOSE m \in S : \A k \in S : k <= m

-----------------------------------------------------------------------------
(* Encoders and digests *)

as_bytes(text) == <<[utf8 |-> text]>>

to_cbor(v) == <<[cbor |-> v]>>

json_to_string(v) == <<[json |-> v]>>

json_to_string_pretty(v) == <<[json_pretty |-> v]>>

brotli(bytes) == <<[br |-> bytes]>>

sha256_hex(bytes) == [sha256 |-> bytes]

crc32(bytes) == [crc32 |-> bytes]

crc_hex(crc) == [hex8 |-> crc]

IsBlock(bytes, enc) == Len(bytes) = 1 /\ DOMAIN bytes[1] = {enc}

\* serde_json::from_slice: compact and pretty JSON parse to the same value
json_from_slice(bytes) ==
    IF IsBlock(bytes, "json") THEN Ok(bytes[1].json)
    ELSE IF IsBlock(bytes, "json_pretty") THEN Ok(bytes[1].json_pretty)
    ELSE Err(JsonError)

cbor_from_slice(bytes) ==
    IF IsBlock(bytes, "cbor") THEN Ok(bytes[1].cbor) ELSE Err(CborError)

-----------------------------------------------------------------------------
(* Piece table *)

PieceChunk(kind, offset, len, source, pos, data) ==
    [type |-> kind, offset |-> offset, len |-> len, source |-> source,
     pos |-> pos, data |-> data]

\* the chunk both versioning.rs and version.rs build for a whole base text
OriginalChunk(n) ==
    PieceChunk("original", Some(0), Some(n), Some("baseText"), None, None)

InsertChunk(pos, data) ==
    PieceChunk("insert", None, None, None, Some(pos), Some(data))

DeleteChunk(pos, len) ==
    PieceChunk("delete", None, Some(len), None, Some(pos), None)

Min(a, b) == IF a < b THEN a ELSE b

\* usize, scaled down to UsizeBits bits
UsizeBits == 3

UsizeMax == 2 ^ UsizeBits - 1

\* a character whose UTF-8 encoding takes two bytes; the others here take one
TwoByteChar == "U+00E9"

utf8_len(ch) == IF ch = TwoByteChar THEN 2 ELSE 1

RECURSIVE str_len(_)
\* String::len(): the length in bytes
str_len(text) == IF text = <<>> THEN 0 ELSE utf8_len(Head(text)) + str_len(Tail(text))

\* str::is_char_boundary: the byte index falls between two characters
is_char_boundary(text, index) ==
    \E c \in 0 .. Len(text) : str_len(SubSeq(text, 1, c)) = index

\* the number of characters before a byte index that is a boundary
chars_before(text, index) ==
    CHOOSE c \in 0 .. Len(text) : str_len(SubSeq(text, 1, c)) = index

\* a panic of the thread that runs to_text
Panicked == Err("panic")

\* pos + len on usize: past UsizeMax a build with overflow checks panics and a
\* build without them wraps around
usize_add(a, b) ==
    IF a + b <= UsizeMax THEN {Ok(a + b)}
    ELSE {Panicked, Ok((a + b) % (UsizeMax + 1))}

\* String::insert_str: panics when idx is no char boundary
insert_str(text, idx, string) ==
    IF is_char_boundary(text, idx)
    THEN Ok(SubSeq(text, 1, chars_before(text, idx)) \o string
            \o SubSeq(text, chars_before(text, idx) + 1, Len(text)))
    ELSE Panicked

\* String::replace_range(start..end, ""): panics when start or end is no char
\* boundary
replace_range(text, start, end) ==
    IF is_char_boundary(text, start) /\ is_char_boundary(text, end)
    THEN Ok(SubSeq(text, 1, chars_before(text, start))
            \o SubSeq(text, chars_before(text, end) + 1, Len(text)))
    ELSE Panicked

\* the Delete arm from the sum pos + len on
delete_to(text, pos, sum) ==
    IF ~sum.ok THEN Panicked
    ELSE IF pos < Min(sum.val, str_len(text))
    THEN replace_range(text, pos, Min(sum.val, str_len(text)))
    ELSE Ok(text)

\* one turn of the loop over the chunks: the outcomes it can have
apply_chunk(text, chunk) ==
    IF chunk.type = "insert"
    THEN IF chunk.pos # None /\ chunk.data # None /\ chunk.pos[1] <= str_len(text)
         THEN {insert_str(text, chunk.pos[1], chunk.data[1])}
         ELSE {Ok(text)}
    ELSE IF chunk.type = "delete"
    THEN IF chunk.pos # None /\ chunk.len # None
         THEN {delete_to(text, chunk.pos[1], sum) :
                  sum \in usize_add(chunk.pos[1], chunk.len[1])}
         ELSE {Ok(text)}
    ELSE {Ok(text)}

RECURSIVE apply_chunks(_, _)
\* the loop over the chunks from an outcome so far; a panic ends it
apply_chunks(so_far, chunks) ==
    IF chunks = <<>> \/ ~so_far.ok THEN {so_far}
    ELSE UNION {apply_chunks(next, Tail(chunks)) :
                   next \in apply_chunk(so_far.val, Head(chunks))}

\* the outcomes of to_text: Ok(text), or a panic
to_text(content) == apply_chunks(Ok(content.base_text), content.chunks)

PieceTableContent(base_text, chunks) == [base_text |-> base_text, chunks |-> chunks]

-----------------------------------------------------------------------------
(* Payload, manifest, archive *)

\* MetadataPayload::default()
DefaultMetadata == [ranges |-> <<>>, embeddings |-> <<>>, custom |-> <<>>]

\* a custom map with one entry: key "k", value a string of n characters "x"
PaddedMetadata(n) ==
    [ranges |-> <<>>, embeddings |-> <<>>, custom |-> <<[key |-> "k", x_run |-> n]>>]

RECURSIVE CustomJsonLen(_)
\* the bytes the entries of `custom` take in compact JSON: "k":"x..x" and commas
CustomJsonLen(entries) ==
    IF entries = <<>> THEN 0
    ELSE 6 + Head(entries).x_run
         + (IF Tail(entries) = <<>> THEN 0 ELSE 1 + CustomJsonLen(Tail(entries)))

\* the length of serde_json::to_vec(&metadata) for a metadata without ranges
\* and embeddings: {"ranges":[],"embeddings":{},"custom":{...}}
MetadataJsonLen(m) == 41 + CustomJsonLen(m.custom)

AssetRef(name, target_pos, alt, size, bytes) ==
    [name |-> name, target_pos |-> target_pos, alt |-> alt, size |-> size,
     bytes |-> bytes]

DocumentPayload(base_text, chunks, metadata, versions, assets, document_tree) ==
    [base_text |-> base_text, chunks |-> chunks, metadata |-> metadata,
     versions |-> versions, assets |-> assets, document_tree |-> document_tree]

MetadataThreshold == 1024

\* CompressorReader over the bytes in memory, read to the end
compress(bytes) == Ok(brotli(bytes))

\* metadata of exactly the threshold's size compressed as well
maybe_compress_metadata_below(m) ==
    IF MetadataJsonLen(m) < MetadataThreshold
    THEN [path |-> "metadata.json", bytes |-> json_to_string(m)]
    ELSE [path |-> "metadata.json.br", bytes |-> brotli(json_to_string(m))]

maybe_compress_metadata(m) ==
    IF MetadataJsonLen(m) <= MetadataThreshold
    THEN [path |-> "metadata.json", bytes |-> json_to_string(m)]
    ELSE IF compress(json_to_string(m)).ok
    THEN [path |-> "metadata.json.br", bytes |-> compress(json_to_string(m)).val]
    ELSE [path |-> "metadata.json", bytes |-> json_to_string(m)]

\* path.ends_with(".br"), over the entry names of the model
ends_with_br(path) == path = "metadata.json.br"

maybe_decompress_metadata(path, bytes) ==
    IF ~ends_with_br(path) THEN Ok(bytes)
    ELSE IF IsBlock(bytes, "br") THEN Ok(bytes[1].br)
    ELSE Err([kind |-> "Io", what |-> "brotli"])

version_path(idx) == "versions/delta-" \o ToString(idx) \o ".jsonpatch"

asset_path(name) == "assets/" \o name

ZipEntry(name, data) == [name |-> name, crc |-> crc32(data), data |-> data]

NoFile == [kind |-> "none", entries |-> <<>>]

\* a file that is no zip archive
GarbageFile == [kind |-> "garbage", entries |-> <<>>]

\* a file of no bytes, as File::create leaves it
EmptyFile == [kind |-> "empty", entries |-> <<>>]

\* an archive under construction: entries written, no central directory yet
PartialFile(entries) == [kind |-> "partial", entries |-> entries]

ZipFile(entries) == [kind |-> "zip", entries |-> entries]

EntryNames(entries) == {entries[i].name : i \in DOMAIN entries}

\* ZipArchive::by_name: the entry of that name, None when there is none
by_name(entries, name) ==
    IF name \in EntryNames(entries)
    THEN Some(entries[CHOOSE i \in DOMAIN entries :
                        /\ entries[i].name = name
                        /\ \A j \in DOMAIN entries : entries[j].name = name => i <= j])
    ELSE None

\* ZipFile::crc32: the code the archive records for the entry
entry_crc32(entry) == entry.crc

\* Read::read_to_end on an entry: the zip reader checks the data it has read
\* against the entry's recorded code and fails with "Invalid checksum"
read_to_end(entry) ==
    IF crc32(entry.data) = entry.crc THEN Ok(entry.data) ELSE Err(IoInvalidChecksum)

-----------------------------------------------------------------------------
(* save_document *)

content_bytes(payload) ==
    to_cbor(PieceTableContent(payload.base_text, payload.chunks))

document_tree_bytes(payload) ==
    IF payload.document_tree = None THEN None
    ELSE Some(json_to_string(payload.document_tree[1]))

asset_bytes(asset) == <<[raw |-> asset.bytes]>>

\* the BTreeMap `rels`: asset name -> {targetPos, alt, size}; of two assets
\* of one name the later one stays
rels_of(assets) ==
    [n \in {assets[i].name : i \in DOMAIN assets} |->
        LET i == Max({j \in DOMAIN assets : assets[j].name = n}, 0)
        IN  [targetPos |-> assets[i].target_pos, alt |-> assets[i].alt,
             size |-> assets[i].size]]

\* the bytes save_document hashes (zip_container.rs 161-174)
save_hash_input(payload) ==
    content_bytes(payload)
    \o maybe_compress_metadata(payload.metadata).bytes
    \o (IF payload.document_tree = None THEN <<>> ELSE document_tree_bytes(payload)[1])
    \o Concat([i \in DOMAIN payload.versions |-> json_to_string(payload.versions[i])])
    \o Concat([i \in DOMAIN payload.assets |-> asset_bytes(payload.assets[i])])

\* the entries of the provisional archive, and of the final one after the
\* manifest, in the order they are written
payload_entries(payload) ==
    <<ZipEntry("content.cbor", content_bytes(payload)),
      ZipEntry(maybe_compress_metadata(payload.metadata).path,
               maybe_compress_metadata(payload.metadata).bytes)>>
    \o (IF payload.document_tree = None THEN <<>>
        ELSE <<ZipEntry("documentTree.json", document_tree_bytes(payload)[1])>>)
    \o [i \in DOMAIN payload.versions |->
           ZipEntry(version_path(i), json_to_string_pretty(payload.versions[i]))]
    \o [i \in DOMAIN payload.assets |->
           ZipEntry(asset_path(payload.assets[i].name), asset_bytes(payload.assets[i]))]
    \o <<ZipEntry("assets/rels.json", json_to_string_pretty(rels_of(payload.assets)))>>

\* the read pass over the provisional archive: entry name -> crc_hex(entry.crc32())
read_back_checksums(entries) ==
    [n \in EntryNames(entries) |-> crc_hex(entry_crc32(by_name(entries, n)[1]))]

Manifest(payload, checksum, file_checksums, now) ==
    [schemaVersion |-> IF payload.document_tree # None THEN "2.0" ELSE "1.0",
     contentType |-> "text/grokedoc",
     lastModified |-> now,
     checksum |-> checksum,
     files |-> [content |-> "content.cbor",
                metadata |-> maybe_compress_metadata(payload.metadata).path,
                documentTree |-> IF payload.document_tree = None THEN None
                                 ELSE Some("documentTree.json"),
                versions |-> [i \in DOMAIN payload.versions |-> version_path(i)],
                assets |-> [i \in DOMAIN payload.assets |->
                              asset_path(payload.assets[i].name)]],
     fileChecksums |-> file_checksums]

\* the manifest written after the other entries
final_entries_manifest_last(payload, manifest) ==
    payload_entries(payload)
    \o <<ZipEntry("manifest.json", json_to_string_pretty(manifest))>>

final_entries(payload, manifest) ==
    <<ZipEntry("manifest.json", json_to_string_pretty(manifest))>>
    \o payload_entries(payload)

\* the time of the save hashed in with the payload
save_document_hashing_time(payload, now) ==
    ZipFile(final_entries(payload,
                Manifest(payload,
                         sha256_hex(save_hash_input(payload) \o <<[json |-> now]>>),
                         read_back_checksums(payload_entries(payload)), now)))

\* the file save_document leaves at path
save_document(payload, now) ==
    ZipFile(final_entries(payload,
                Manifest(payload, sha256_hex(save_hash_input(payload)),
                         read_back_checksums(payload_entries(payload)), now)))

-----------------------------------------------------------------------------
(* load_document *)

\* archive.by_name(name)?, read_to_end(..)? : the bytes of the entry
read_entry(entries, name) ==
    IF by_name(entries, name) = None THEN Err(ZipError("FileNotFound"))
    ELSE read_to_end(by_name(entries, name)[1])

read_manifest(entries) ==
    LET bytes == read_entry(entries, "manifest.json")
    IN  IF ~bytes.ok THEN bytes ELSE json_from_slice(bytes.val)

\* the entries whose recorded code differs from the manifest's code for
\* their name (entries the manifest has no code for are not compared)
crc_mismatches(entries, manifest) ==
    {i \in DOMAIN entries :
        /\ entries[i].name \in DOMAIN manifest.fileChecksums
        /\ crc_hex(entry_crc32(entries[i])) # manifest.fileChecksums[entries[i].name]}

\* the comparison left out
validate_crc_skipped(entries, manifest) == Ok(<<>>)

\* the loop over the archive's entries: the first mismatch is returned
validate_crc(entries, manifest) ==
    LET bad == crc_mismatches(entries, manifest)
    IN  IF bad = {} THEN Ok(<<>>)
        ELSE LET i == CHOOSE k \in bad : \A j \in bad : k <= j
             IN  Err(IntegrityCrc(entries[i].name,
                                  manifest.fileChecksums[entries[i].name],
                                  crc_hex(entry_crc32(entries[i]))))

read_content(entries, manifest) ==
    LET bytes == read_entry(entries, manifest.files.content)
    IN  IF ~bytes.ok THEN bytes ELSE cbor_from_slice(bytes.val)

read_metadata(entries, manifest) ==
    LET bytes == read_entry(entries, manifest.files.metadata)
    IN  IF ~bytes.ok THEN bytes
        ELSE LET json == maybe_decompress_metadata(manifest.files.metadata, bytes.val)
             IN  IF ~json.ok THEN json ELSE json_from_slice(json.val)

\* every failure on the document tree is swallowed (.ok()?) and gives None
read_document_tree(entries, manifest) ==
    IF manifest.files.documentTree = None THEN None
    ELSE LET bytes == read_entry(entries, manifest.files.documentTree[1])
         IN  IF ~bytes.ok THEN None
             ELSE IF ~json_from_slice(bytes.val).ok THEN None
             ELSE Some(json_from_slice(bytes.val).val)

RECURSIVE read_versions_strict(_, _)
\* a listed path that is not in the archive fails the load
read_versions_strict(entries, paths) ==
    IF paths = <<>> THEN Ok(<<>>)
    ELSE IF by_name(entries, Head(paths)) = None THEN Err(ZipError("FileNotFound"))
    ELSE LET bytes == read_to_end(by_name(entries, Head(paths))[1])
             value == json_from_slice(bytes.val)
             rest  == read_versions_strict(entries, Tail(paths))
         IN  IF ~bytes.ok THEN bytes
             ELSE IF ~value.ok THEN value
             ELSE IF ~rest.ok THEN rest
             ELSE Ok(<<value.val>> \o rest.val)

RECURSIVE read_versions(_, _)
\* a listed path that is not in the archive is skipped; a read or parse
\* failure of one that is there fails the load
read_versions(entries, paths) ==
    IF paths = <<>> THEN Ok(<<>>)
    ELSE IF by_name(entries, Head(paths)) = None THEN read_versions(entries, Tail(paths))
    ELSE LET bytes == read_to_end(by_name(entries, Head(paths))[1])
             value == json_from_slice(bytes.val)
             rest  == read_versions(entries, Tail(paths))
         IN  IF ~bytes.ok THEN bytes
             ELSE IF ~value.ok THEN value
             ELSE IF ~rest.ok THEN rest
             ELSE Ok(<<value.val>> \o rest.val)

read_rels(entries) ==
    IF by_name(entries, "assets/rels.json") = None THEN Ok(<<>>)
    ELSE LET bytes == read_to_end(by_name(entries, "assets/rels.json")[1])
         IN  IF ~bytes.ok THEN bytes ELSE json_from_slice(bytes.val)

\* the asset names of the model
AssetNames == {"logo.png", "nested.png", "assets/nested.png"}

RECURSIVE trim_start_matches_assets(_)
\* asset_path.trim_start_matches("assets/"): every leading "assets/" goes
trim_start_matches_assets(path) ==
    IF \E n \in AssetNames \cup {asset_path(m) : m \in AssetNames} : path = asset_path(n)
    THEN trim_start_matches_assets(
             CHOOSE n \in AssetNames \cup {asset_path(m) : m \in AssetNames} :
                 path = asset_path(n))
    ELSE path

asset_from(name, rels, bytes) ==
    LET rel == IF name \in DOMAIN rels THEN rels[name] ELSE [none |-> 0]
    IN  AssetRef(name,
                 IF "targetPos" \in DOMAIN rel THEN rel.targetPos ELSE 0,
                 IF "alt" \in DOMAIN rel THEN rel.alt ELSE <<>>,
                 IF "size" \in DOMAIN rel THEN rel.size ELSE <<0, 0>>,
                 bytes)

raw_bytes(bytes) == IF IsBlock(bytes, "raw") THEN bytes[1].raw ELSE bytes

RECURSIVE read_assets(_, _, _)
read_assets(entries, rels, paths) ==
    IF paths = <<>> THEN Ok(<<>>)
    ELSE IF by_name(entries, Head(paths)) = None
         THEN read_assets(entries, rels, Tail(paths))
    ELSE LET bytes == read_to_end(by_name(entries, Head(paths))[1])
             rest  == read_assets(entries, rels, Tail(paths))
         IN  IF ~bytes.ok THEN bytes
             ELSE IF ~rest.ok THEN rest
             ELSE Ok(<<asset_from(trim_start_matches_assets(Head(paths)), rels,
                                  raw_bytes(bytes.val))>> \o rest.val)

\* the bytes load_document hashes (zip_container.rs 382-398)
load_hash_input(content, metadata, document_tree, versions, assets) ==
    as_bytes(content.base_text)
    \o Concat([i \in DOMAIN content.chunks |-> json_to_string(content.chunks[i])])
    \o json_to_string(metadata)
    \o (IF document_tree = None THEN <<>> ELSE json_to_string(document_tree[1]))
    \o Concat([i \in DOMAIN versions |-> json_to_string(versions[i])])
    \o Concat([i \in DOMAIN assets |-> asset_bytes(assets[i])])

validate_checksum(manifest, checksum, payload) ==
    IF checksum # manifest.checksum
    THEN Err(IntegrityChecksum(manifest.checksum, checksum))
    ELSE Ok(payload)

\* the tail of load_document once every part is decoded
load_decoded(manifest, content, metadata, document_tree, versions, assets) ==
    validate_checksum(manifest,
        sha256_hex(load_hash_input(content, metadata, document_tree, versions, assets)),
        DocumentPayload(content.base_text, content.chunks, metadata, versions,
                        assets, document_tree))

\* the `?` on the asset reads
load_assets(manifest, content, metadata, document_tree, versions, assets) ==
    IF ~assets.ok THEN assets
    ELSE load_decoded(manifest, content, metadata, document_tree, versions, assets.val)

\* the `?` on content, metadata, versions and rels, in the order they are read
load_parts(entries, manifest, content, metadata, document_tree, versions, rels) ==
    IF ~content.ok THEN content
    ELSE IF ~metadata.ok THEN metadata
    ELSE IF ~versions.ok THEN versions
    ELSE IF ~rels.ok THEN rels
    ELSE load_assets(manifest, content.val, metadata.val, document_tree, versions.val,
                     read_assets(entries, rels.val, manifest.files.assets))

\* load_document after the per-entry code check
load_checked(entries, manifest, crc) ==
    IF ~crc.ok THEN crc
    ELSE load_parts(entries, manifest,
                    read_content(entries, manifest),
                    read_metadata(entries, manifest),
                    read_document_tree(entries, manifest),
                    read_versions(entries, manifest.files.versions),
                    read_rels(entries))

\* load_document after the manifest is read
load_archive(entries, manifest) ==
    IF ~manifest.ok THEN manifest
    ELSE load_checked(entries, manifest.val, validate_crc(entries, manifest.val))

\* the payload decoded from whatever bytes are read: the entries' codes and
\* the manifest's codes and checksum are taken to fit
load_document_unverified(file) ==
    IF file.kind = "none" THEN Err(IoNotFound)
    ELSE IF file.kind # "zip" THEN Err(ZipError("InvalidArchive"))
    ELSE LET entries  == [i \in DOMAIN file.entries |->
                             ZipEntry(file.entries[i].name, file.entries[i].data)]
             manifest == read_manifest(entries)
             probe    == load_checked(entries, manifest.val, Ok(<<>>))
         IN  IF ~manifest.ok THEN manifest
             ELSE IF probe.ok \/ probe.err.kind # "Integrity" THEN probe
             ELSE load_checked(entries,
                               [manifest.val EXCEPT !.checksum = probe.err.actual],
                               Ok(<<>>))

load_document(file) ==
    IF file.kind = "none" THEN Err(IoNotFound)
    ELSE IF file.kind # "zip" THEN Err(ZipError("InvalidArchive"))
    ELSE load_archive(file.entries, read_manifest(file.entries))

-----------------------------------------------------------------------------
(* DocumentVersion (model/version.rs) *)

\* the hash taken of the version's number and content together
DocumentVersion_new_numbered_hash(version_number, content, label, id, now) ==
    [id |-> id,
     version_number |-> version_number,
     created_at |-> now,
     label |-> label,
     content_hash |-> sha256_hex(as_bytes(<<ToString(version_number)>> \o content)),
     content |-> content,
     metadata |-> PieceTableContent(content, <<OriginalChunk(str_len(content))>>)]

\* DocumentVersion::new; id is the fresh uuid, now the clock reading
DocumentVersion_new(version_number, content, label, id, now) ==
    [id |-> id,
     version_number |-> version_number,
     created_at |-> now,
     label |-> label,
     content_hash |-> sha256_hex(as_bytes(content)),
     content |-> content,
     metadata |-> PieceTableContent(content, <<OriginalChunk(str_len(content))>>)]

\* serde_json::to_value(&version): camelCase keys, no label key when None
to_value(version) ==
    LET fields == [id |-> version.id,
                   versionNumber |-> version.version_number,
                   createdAt |-> version.created_at,
                   contentHash |-> version.content_hash,
                   content |-> version.content,
                   metadata |-> [baseText |-> version.metadata.base_text,
                                 chunks |-> version.metadata.chunks]]
    IN  IF version.label = None THEN fields
        ELSE [k \in DOMAIN fields \cup {"label"} |->
                 IF k = "label" THEN version.label[1] ELSE fields[k]]

\* the keys a value must have to deserialize as a DocumentVersion
RequiredVersionKeys == {"id", "versionNumber", "createdAt", "contentHash", "content",
                        "metadata"}

\* serde_json::from_value::<DocumentVersion>
from_value(v) ==
    IF RequiredVersionKeys \subseteq DOMAIN v
    THEN Ok([id |-> v.id,
             version_number |-> v.versionNumber,
             created_at |-> v.createdAt,
             label |-> IF "label" \in DOMAIN v THEN Some(v.label) ELSE None,
             content_hash |-> v.contentHash,
             content |-> v.content,
             metadata |-> PieceTableContent(v.metadata.baseText, v.metadata.chunks)])
    ELSE Err([kind |-> "Serialization", what |-> "missing field"])

\* str::lines().count(): the line breaks, and a last line without one
line_count(text) ==
    Cardinality({i \in DOMAIN text : text[i] = "\n"})
    + (IF text # <<>> /\ text[Len(text)] # "\n" THEN 1 ELSE 0)

to_summary(version) ==
    [id |-> version.id,
     version_number |-> version.version_number,
     created_at |-> version.created_at,
     label |-> version.label,
     content_hash |-> version.content_hash,
     char_count |-> str_len(version.content),
     line_count |-> line_count(version.content)]

-----------------------------------------------------------------------------
(* The diff engine (compute_diff in commands/versioning.rs, diff in         *)
(* wasm/yeno-wasm/src/diff.rs, both over similar::TextDiff)                 *)

\* the number of context lines unified_diff() is asked for
ContextRadius == 3

Least(S) == CHOOSE m \in S : \A k \in S : m <= k

RECURSIVE str_lines(_)
\* str::lines(): the pieces between the line breaks, without the breaks; a
\* text that ends in a line break has no empty last line
str_lines(text) ==
    IF text = <<>> THEN <<>>
    ELSE IF \A i \in DOMAIN text : text[i] # "\n" THEN <<text>>
    ELSE <<SubSeq(text, 1, Least({i \in DOMAIN text : text[i] = "\n"}) - 1)>>
         \o str_lines(SubSeq(text, Least({i \in DOMAIN text : text[i] = "\n"}) + 1,
                             Len(text)))

\* the lines compared without their line breaks
from_lines_without_breaks(text) == str_lines(text)

RECURSIVE from_lines(_)
\* TextDiff::from_lines: the lines the diff compares, each with its line break
from_lines(text) ==
    IF text = <<>> THEN <<>>
    ELSE IF \A i \in DOMAIN text : text[i] # "\n" THEN <<text>>
    ELSE <<SubSeq(text, 1, Least({i \in DOMAIN text : text[i] = "\n"}))>>
         \o from_lines(SubSeq(text, Least({i \in DOMAIN text : text[i] = "\n"}) + 1,
                              Len(text)))

\* the pairs of an old and a new line that are equal
EqualPairs(old, new) == {p \in (DOMAIN old) \X (DOMAIN new) : old[p[1]] = new[p[2]]}

\* pairs that can be kept together: they rise in both texts
IsChain(M) ==
    \A p \in M, q \in M : p = q \/ (p[1] < q[1] /\ p[2] < q[2])
                                \/ (q[1] < p[1] /\ q[2] < p[2])

Chains(old, new) == {M \in SUBSET EqualPairs(old, new) : IsChain(M)}

\* the edit scripts the Myers algorithm of TextDiff may settle on: the ones
\* that keep as many lines as can be kept.  Which of several it takes is not
\* fixed here; the lines kept are the Equal changes.
Alignments(old, new) ==
    LET chains == Chains(old, new)
        most   == Max({Cardinality(K) : K \in chains}, 0)
    IN  {M \in chains : Cardinality(M) = most}

\* similar::Change: tag, value, and how many old and new lines precede it
Change(tag, old_index, new_index, value) ==
    [tag |-> tag, old_index |-> old_index, new_index |-> new_index, value |-> value]

RECURSIVE changes_from(_, _, _, _, _)
\* the changes from old line i and new line j on: between two kept lines the
\* removed lines come first, then the added ones (DiffOp::Replace)
changes_from(old, new, M, i, j) ==
    IF i > Len(old) /\ j > Len(new) THEN <<>>
    ELSE IF <<i, j>> \in M
    THEN <<Change("equal", i - 1, j - 1, old[i])>> \o changes_from(old, new, M, i + 1, j + 1)
    ELSE IF i <= Len(old) /\ \A p \in M : p[1] # i
    THEN <<Change("delete", i - 1, j - 1, old[i])>> \o changes_from(old, new, M, i + 1, j)
    ELSE <<Change("insert", i - 1, j - 1, new[j])>> \o changes_from(old, new, M, i, j + 1)

\* TextDiff::iter_all_changes
iter_all_changes(old, new, M) == changes_from(old, new, M, 1, 1)

\* a change belongs to a hunk when it is no Equal or lies within the context
\* radius of one that is none
in_hunk(changes, k) ==
    \E c \in DOMAIN changes :
        /\ changes[c].tag # "equal"
        /\ c - k <= ContextRadius
        /\ k - c <= ContextRadius

\* UnifiedDiffHunk: its changes and its ranges in the old and the new text
UnifiedDiffHunk(changes, first, last_change) ==
    [old_range |-> [start |-> changes[first].old_index,
                    len |-> Cardinality({k \in first .. last_change :
                                            changes[k].tag \in {"equal", "delete"}})],
     new_range |-> [start |-> changes[first].new_index,
                    len |-> Cardinality({k \in first .. last_change :
                                            changes[k].tag \in {"equal", "insert"}})],
     changes |-> SubSeq(changes, first, last_change)]

\* where the hunk that starts at change k ends
hunk_end(changes, k) ==
    CHOOSE e \in k .. Len(changes) :
        /\ \A i \in k .. e : in_hunk(changes, i)
        /\ (e = Len(changes) \/ ~in_hunk(changes, e + 1))

RECURSIVE hunks_from(_, _)
hunks_from(changes, k) ==
    IF k > Len(changes) THEN <<>>
    ELSE IF ~in_hunk(changes, k) THEN hunks_from(changes, k + 1)
    ELSE <<UnifiedDiffHunk(changes, k, hunk_end(changes, k))>>
         \o hunks_from(changes, hunk_end(changes, k) + 1)

\* text_diff.unified_diff().context_radius(3).iter_hunks()
iter_hunks(changes) == hunks_from(changes, 1)

split_change_keeping_breaks(value) == <<value>>

\* the lines of a change's value, line breaks dropped
split_change_into_lines(value) ==
    IF str_lines(value) = <<>> /\ value # <<>> THEN <<value>> ELSE str_lines(value)

DiffLine(kind, content, old_line, new_line) ==
    [kind |-> kind, content |-> content, old_line |-> old_line, new_line |-> new_line]

\* the match with a removed line numbered by the counter of the new text
diff_line_new_counter(tag, content, old_line, new_line, i) ==
    IF tag = "delete" THEN DiffLine("deletion", content, Some(new_line + i), None)
    ELSE IF tag = "insert" THEN DiffLine("addition", content, None, Some(new_line + i))
    ELSE DiffLine("context", content, Some(old_line + i), Some(new_line + i))

\* the match on change.tag(): the line the i-th line (from 0) of a change gives
diff_line(tag, content, old_line, new_line, i) ==
    IF tag = "delete" THEN DiffLine("deletion", content, Some(old_line + i), None)
    ELSE IF tag = "insert" THEN DiffLine("addition", content, None, Some(new_line + i))
    ELSE DiffLine("context", content, Some(old_line + i), Some(new_line + i))

prefix_of(tag) == IF tag = "delete" THEN "-" ELSE IF tag = "insert" THEN "+" ELSE " "

\* lines.len().max(1)
max_1(n) == IF n > 1 THEN n ELSE 1

\* one change of a hunk with both line counters advanced by every change
apply_change_one_counter(acc, tag, lines) ==
    [additions |-> acc.additions + (IF tag = "insert" THEN Len(lines) ELSE 0),
     deletions |-> acc.deletions + (IF tag = "delete" THEN Len(lines) ELSE 0),
     unchanged |-> acc.unchanged + (IF tag = "equal" THEN Len(lines) ELSE 0),
     unified_diff |-> acc.unified_diff
         \o [i \in DOMAIN lines |-> [prefix |-> prefix_of(tag), text |-> lines[i]]],
     diff_lines |-> acc.diff_lines
         \o [i \in DOMAIN lines |->
                diff_line(tag, lines[i], acc.old_line, acc.new_line, i - 1)],
     old_line |-> acc.old_line + max_1(Len(lines)),
     new_line |-> acc.new_line + max_1(Len(lines)),
     hunks |-> acc.hunks]

\* one change of a hunk: `acc` holds the counters, the hunk's lines so far, the
\* two line counters and the unified text; `lines` are the change's lines
apply_change(acc, tag, lines) ==
    [additions |-> acc.additions + (IF tag = "insert" THEN Len(lines) ELSE 0),
     deletions |-> acc.deletions + (IF tag = "delete" THEN Len(lines) ELSE 0),
     unchanged |-> acc.unchanged + (IF tag = "equal" THEN Len(lines) ELSE 0),
     unified_diff |-> acc.unified_diff
         \o [i \in DOMAIN lines |-> [prefix |-> prefix_of(tag), text |-> lines[i]]],
     diff_lines |-> acc.diff_lines
         \o [i \in DOMAIN lines |->
                diff_line(tag, lines[i], acc.old_line, acc.new_line, i - 1)],
     old_line |-> acc.old_line + (IF tag = "insert" THEN 0 ELSE max_1(Len(lines))),
     new_line |-> acc.new_line + (IF tag = "delete" THEN 0 ELSE max_1(Len(lines))),
     hunks |-> acc.hunks]

RECURSIVE hunk_changes(_, _)
\* for change in hunk.iter_changes()
hunk_changes(acc, changes) ==
    IF changes = <<>> THEN acc
    ELSE hunk_changes(apply_change(acc, Head(changes).tag,
                                   split_change_into_lines(Head(changes).value)),
                      Tail(changes))

\* the header with the starts as the ranges hold them, counted from 0
hunk_header_zero_based(hunk) ==
    [old_start |-> hunk.old_range.start, old_lines |-> hunk.old_range.len,
     new_start |-> hunk.new_range.start, new_lines |-> hunk.new_range.len]

\* "@@ -{},{} +{},{} @@"
hunk_header(hunk) ==
    [old_start |-> hunk.old_range.start + 1, old_lines |-> hunk.old_range.len,
     new_start |-> hunk.new_range.start + 1, new_lines |-> hunk.new_range.len]

\* the state at the top of a hunk's body
enter_hunk(acc, hunk) ==
    [acc EXCEPT !.unified_diff = @ \o <<[prefix |-> "@@", text |-> hunk_header(hunk)]>>,
                !.diff_lines = <<>>,
                !.old_line = hunk.old_range.start + 1,
                !.new_line = hunk.new_range.start + 1]

\* hunks.push(DiffHunk { .. })
push_hunk(acc, hunk) ==
    [acc EXCEPT !.hunks = Append(@, [header |-> hunk_header(hunk),
                                     old_start |-> hunk.old_range.start + 1,
                                     old_lines |-> hunk.old_range.len,
                                     new_start |-> hunk.new_range.start + 1,
                                     new_lines |-> hunk.new_range.len,
                                     lines |-> acc.diff_lines])]

RECURSIVE each_hunk(_, _)
\* for hunk in ...iter_hunks()
each_hunk(acc, hunks) ==
    IF hunks = <<>> THEN acc
    ELSE each_hunk(push_hunk(hunk_changes(enter_hunk(acc, Head(hunks)),
                                          Head(hunks).changes),
                             Head(hunks)),
                   Tail(hunks))

\* an f64 quotient, kept as the two numbers it is taken from
Ratio(num, den) == [num |-> num, den |-> den]

\* the quotient taken also of a zero total
similarity_unguarded(unchanged, total) == Ratio(unchanged, total)

similarity(unchanged, total) ==
    IF total > 0 THEN Ratio(unchanged, total) ELSE Ratio(1, 1)

\* the VersionDiff with the share of the changed lines as its similarity
version_diff_changed_share(from, to, acc) ==
    [from_version_id |-> from.id,
     to_version_id |-> to.id,
     additions |-> acc.additions,
     deletions |-> acc.deletions,
     unchanged |-> acc.unchanged,
     similarity |-> similarity(acc.additions + acc.deletions,
                               acc.additions + acc.deletions + acc.unchanged),
     unified_diff |-> acc.unified_diff,
     hunks |-> acc.hunks]

\* the VersionDiff built from the counters after the loop
version_diff(from, to, acc) ==
    [from_version_id |-> from.id,
     to_version_id |-> to.id,
     additions |-> acc.additions,
     deletions |-> acc.deletions,
     unchanged |-> acc.unchanged,
     similarity |-> similarity(acc.unchanged,
                               acc.additions + acc.deletions + acc.unchanged),
     unified_diff |-> acc.unified_diff,
     hunks |-> acc.hunks]

\* compute_diff over the edit script M that TextDiff found
compute_diff(from, to, M) ==
    version_diff(from, to,
        each_hunk([additions |-> 0, deletions |-> 0, unchanged |-> 0,
                   unified_diff |-> <<[prefix |-> "---", text |-> from.version_number],
                                      [prefix |-> "+++", text |-> to.version_number]>>,
                   diff_lines |-> <<>>, old_line |-> 0, new_line |-> 0,
                   hunks |-> <<>>],
                  iter_hunks(iter_all_changes(from_lines(from.content),
                                              from_lines(to.content), M))))

\* DiffResult::add_hunk
add_hunk(result, tag) ==
    [result EXCEPT !.count = @ + 1,
                   !.insertions = @ + (IF tag = "insert" THEN 1 ELSE 0),
                   !.deletions = @ + (IF tag = "delete" THEN 1 ELSE 0),
                   !.unchanged = @ + (IF tag = "equal" THEN 1 ELSE 0)]

RECURSIVE add_hunks(_, _)
\* the loop of diff(): one DiffHunk for each change
add_hunks(result, changes) ==
    IF changes = <<>> THEN result
    ELSE add_hunks(add_hunk(result, Head(changes).tag), Tail(changes))

\* DiffResult::calculate_similarity
calculate_similarity(result) ==
    IF result.insertions + result.deletions + result.unchanged > 0
    THEN [result EXCEPT !.similarity =
             Ratio(result.unchanged,
                   result.insertions + result.deletions + result.unchanged)]
    ELSE result

\* diff() of the wasm module over the edit script M
diff(old_text, new_text, M) ==
    calculate_similarity(
        add_hunks([count |-> 0, insertions |-> 0, deletions |-> 0, unchanged |-> 0,
                   similarity |-> Ratio(1, 1)],
                  iter_all_changes(from_lines(old_text), from_lines(new_text), M)))

-----------------------------------------------------------------------------
(* Version commands (commands/versioning.rs) *)

\* the payload synthesized when the file does not exist
EmptyPayload ==
    DocumentPayload(<<>>, <<OriginalChunk(0)>>, DefaultMetadata, <<>>, <<>>, None)

\* every load failure taken for a missing file
or_create_any_error(loaded) == IF loaded.ok THEN loaded ELSE Ok(EmptyPayload)

\* the match on load_document's result
or_create(loaded) ==
    IF loaded.ok THEN loaded
    ELSE IF loaded.err = IoNotFound THEN Ok(EmptyPayload)
    ELSE loaded

load_or_create_payload(file) == or_create(load_document(file))

\* the versionNumber values of the records that carry one
version_numbers(versions) ==
    {versions[i].versionNumber :
        i \in {j \in DOMAIN versions : "versionNumber" \in DOMAIN versions[j]}}

\* the count of records instead of their largest number
next_version_number_by_count(versions) == Len(versions) + 1

next_version_number(versions) == Max(version_numbers(versions), 0) + 1

build_version_summaries(versions) ==
    LET parsed == SelectSeq(versions, LAMBDA v : from_value(v).ok)
    IN  [i \in DOMAIN parsed |-> to_summary(from_value(parsed[i]).val)]

has_id(v, id) == "id" \in DOMAIN v /\ v.id = id

\* the scan started at the second record
find_version_from_second(versions, version_id) ==
    LET hits == {i \in DOMAIN versions : i > 1 /\ has_id(versions[i], version_id)}
    IN  IF hits = {} THEN Err(NotFound(version_id))
        ELSE from_value(versions[CHOOSE i \in hits : \A j \in hits : i <= j])

find_version(versions, version_id) ==
    LET hits == {i \in DOMAIN versions : has_id(versions[i], version_id)}
    IN  IF hits = {} THEN Err(NotFound(version_id))
        ELSE from_value(versions[CHOOSE i \in hits : \A j \in hits : i <= j])

\* what a command returns and leaves: its result, the file at path, and the
\* payload it handed to save_document (None when it did not save)
Outcome(res, file, saved) == [res |-> res, disk |-> file, saved |-> saved]

\* save_document(&path, &payload)?, then the response with the summaries
save_and_respond(payload, version, now) ==
    Outcome(Ok([version |-> version,
                all_versions |-> build_version_summaries(payload.versions)]),
            save_document(payload, now), Some(payload))

\* payload.versions.push(serde_json::to_value(&version)?) and what follows
\* the new record put ahead of the stored ones
push_version_front(payload, version, now) ==
    save_and_respond([payload EXCEPT !.versions = <<to_value(version)>> \o @],
                     version, now)

push_version(payload, version, now) ==
    save_and_respond([payload EXCEPT !.versions = Append(@, to_value(version))],
                     version, now)

\* create_version after load_or_create_payload
create_loaded(loaded, file, content, label, id, now) ==
    IF ~loaded.ok THEN Outcome(loaded, file, None)
    ELSE push_version(loaded.val,
                      DocumentVersion_new(next_version_number(loaded.val.versions),
                                          content, label, id, now),
                      now)

create_version(file, content, label, id, now) ==
    create_loaded(load_or_create_payload(file), file, content, label, id, now)

\* format!("Restored from version {}", n)
restored_label(n) == "Restored from version " \o ToString(n)

\* the label made from the new version's own number
restore_target_own_number(payload, target, file, id, now) ==
    IF ~target.ok THEN Outcome(target, file, None)
    ELSE push_version([payload EXCEPT
                          !.base_text = target.val.content,
                          !.chunks = <<OriginalChunk(str_len(target.val.content))>>],
                      DocumentVersion_new(next_version_number(payload.versions),
                                          target.val.content,
                                          Some(restored_label(
                                              next_version_number(payload.versions))),
                                          id, now),
                      now)

\* restore_version after find_version
restore_target(payload, target, file, id, now) ==
    IF ~target.ok THEN Outcome(target, file, None)
    ELSE push_version([payload EXCEPT
                          !.base_text = target.val.content,
                          !.chunks = <<OriginalChunk(str_len(target.val.content))>>],
                      DocumentVersion_new(next_version_number(payload.versions),
                                          target.val.content,
                                          Some(restored_label(target.val.version_number)),
                                          id, now),
                      now)

\* restore_version after load_document
restore_loaded(loaded, file, version_id, id, now) ==
    IF ~loaded.ok THEN Outcome(loaded, file, None)
    ELSE restore_target(loaded.val, find_version(loaded.val.versions, version_id),
                        file, id, now)

restore_version(file, version_id, id, now) ==
    restore_loaded(load_document(file), file, version_id, id, now)

\* the survivors renumbered 1, 2, ...
retain_renumbered(versions, version_id) ==
    LET kept == SelectSeq(versions, LAMBDA v : ~has_id(v, version_id))
    IN  [i \in DOMAIN kept |->
            [k \in DOMAIN kept[i] |-> IF k = "versionNumber" THEN i ELSE kept[i][k]]]

\* payload.versions.retain(..): the records whose id is not version_id
retain_others(versions, version_id) ==
    SelectSeq(versions, LAMBDA v : ~has_id(v, version_id))

\* no check that a record went: the payload is saved and the summaries returned
delete_retained_unchecked(payload, retained, file, version_id, now) ==
    Outcome(Ok([versions |-> build_version_summaries(retained)]),
            save_document([payload EXCEPT !.versions = retained], now),
            Some([payload EXCEPT !.versions = retained]))

\* delete_version after the retain
delete_retained(payload, retained, file, version_id, now) ==
    IF Len(retained) = Len(payload.versions)
    THEN Outcome(Err(NotFound(version_id)), file, None)
    ELSE Outcome(Ok([versions |-> build_version_summaries(retained)]),
                 save_document([payload EXCEPT !.versions = retained], now),
                 Some([payload EXCEPT !.versions = retained]))

\* delete_version after load_document
delete_loaded(loaded, file, version_id, now) ==
    IF ~loaded.ok THEN Outcome(loaded, file, None)
    ELSE delete_retained(loaded.val, retain_others(loaded.val.versions, version_id),
                         file, version_id, now)

delete_version(file, version_id, now) ==
    delete_loaded(load_document(file), file, version_id, now)

(* The read-only version commands *)

\* the number of summaries taken for the current version number
current_version_number_by_count(summaries) == Len(summaries)

\* the maximum of the summaries' version numbers, 0 when there is none
current_version_number(summaries) ==
    Max({summaries[i].version_number : i \in DOMAIN summaries}, 0)

\* list_versions after load_document
list_loaded(loaded, file) ==
    IF ~loaded.ok THEN Outcome(loaded, file, None)
    ELSE Outcome(Ok([versions |-> build_version_summaries(loaded.val.versions),
                     current_version_number |->
                         current_version_number(
                             build_version_summaries(loaded.val.versions))]),
                 file, None)

list_versions(file) == list_loaded(load_document(file), file)

\* get_version after find_version
get_found(found, file) ==
    IF ~found.ok THEN Outcome(found, file, None)
    ELSE Outcome(Ok([version |-> found.val]), file, None)

\* get_version after load_document
get_loaded(loaded, file, version_id) ==
    IF ~loaded.ok THEN Outcome(loaded, file, None)
    ELSE get_found(find_version(loaded.val.versions, version_id), file)

get_version(file, version_id) == get_loaded(load_document(file), file, version_id)

\* diff_versions after both find_version calls: the diffs TextDiff may give
diff_found(from, to, file) ==
    IF ~from.ok THEN {Outcome(from, file, None)}
    ELSE IF ~to.ok THEN {Outcome(to, file, None)}
    ELSE {Outcome(Ok(compute_diff(from.val, to.val, M)), file, None) :
             M \in Alignments(from_lines(from.val.content),
                              from_lines(to.val.content))}

\* diff_versions after load_document
diff_loaded(loaded, file, from_version_id, to_version_id) ==
    IF ~loaded.ok THEN {Outcome(loaded, file, None)}
    ELSE diff_found(find_version(loaded.val.versions, from_version_id),
                    find_version(loaded.val.versions, to_version_id), file)

diff_versions(file, from_version_id, to_version_id) ==
    diff_loaded(load_document(file), file, from_version_id, to_version_id)

(* Document commands (commands/document.rs) *)

save_grokedoc(file, payload, now) ==
    Outcome(Ok([operation |-> "save_grokedoc"]), save_document(payload, now),
            Some(payload))

load_grokedoc(file) == Outcome(load_document(file), file, None)

-----------------------------------------------------------------------------
(* Inputs *)

\* what the caller of create_version sends
CreateRequests ==
    {[content |-> <<"a">>, label |-> None],
     [content |-> <<"a", "\n", "b">>, label |-> Some("draft")]}

\* a version record as an earlier session stored it
StoredVersion(id, number, content) ==
    to_value(DocumentVersion_new(number, content, None, id, 0))

\* a record of a newer schema: it has an id and a number and no content
LooseVersion(id, number) == [id |-> id, versionNumber |-> number, schema |-> "next"]

Logo == AssetRef("logo.png", 1, <<"l">>, <<2, 3>>, <<7, 8>>)

\* an asset whose own name starts with the asset folder's name
Nested == AssetRef("assets/nested.png", 2, <<"n">>, <<4, 5>>, <<9>>)

EditedPayload(versions) ==
    DocumentPayload(<<"x", "y">>, <<OriginalChunk(2), DeleteChunk(0, 1)>>,
                    DefaultMetadata, versions, <<Logo>>, Some([root |-> "outline"]))

PlainPayload(versions) ==
    DocumentPayload(<<"a">>, <<OriginalChunk(1)>>, DefaultMetadata, versions, <<>>, None)

\* the payloads the editor saves with save_grokedoc
SavePayloads ==
    {EditedPayload(<<StoredVersion(101, 1, <<"a">>)>>),
     DocumentPayload(<<"a">>, <<>>, PaddedMetadata(1000), <<>>, <<>>, None)}

\* the payloads of the files found at path when the behaviour starts: one
\* whose version 2 was deleted, one with edits, an asset and an outline, one
\* with a record of a newer schema, one without versions, and one with
\* compressed metadata and an asset named "assets/nested.png"
FoundPayloads ==
    {PlainPayload(<<StoredVersion(101, 1, <<"a">>), StoredVersion(102, 3, <<"a", "b">>)>>),
     EditedPayload(<<StoredVersion(101, 1, <<"a">>), StoredVersion(102, 2, <<"b">>)>>),
     PlainPayload(<<StoredVersion(101, 2, <<"b">>), LooseVersion(102, 4)>>),
     PlainPayload(<<>>),
     DocumentPayload(<<"a">>, <<OriginalChunk(1)>>, PaddedMetadata(1000),
                     <<StoredVersion(101, 1, <<"a", "\n", "b">>),
                       StoredVersion(102, 2, <<"a", "\n", "c">>)>>,
                     <<Nested>>, None)}

\* an archive of the layout save_document writes whose manifest checksum is
\* the one load_document computes, that is, a file load_document accepts
accepted_archive(payload, now) ==
    ZipFile(final_entries(payload,
                Manifest(payload,
                         sha256_hex(load_hash_input(
                             PieceTableContent(payload.base_text, payload.chunks),
                             payload.metadata, payload.document_tree,
                             payload.versions, payload.assets)),
                         read_back_checksums(payload_entries(payload)), now)))

FoundFiles ==
    {NoFile, GarbageFile} \cup {accepted_archive(p, 0) : p \in FoundPayloads}

\* the ids a caller may ask for: stored ones, created ones, and an unknown one
\* the ids of the records in the found files
StoredIds == {101, 102}

RequestIds == StoredIds \cup {999} \cup (1 .. clock)

-----------------------------------------------------------------------------
(* The CRDT document (wasm/yeno-wasm/src/crdt.rs, over yrs) *)

\* a yrs Doc, kept as the operations integrated into it, in order (one
\* client, so the order is the clock's)
Doc(structs) == [structs |-> structs]

\* DocState::new(): Doc::new()
DocState_new == Doc(<<>>)

\* Update::new(): an update that carries nothing
Update_new == Doc(<<>>)

\* Encode::encode_v1 of an update, Update::decode_v1 of bytes
encode_v1(update) == <<[update_v1 |-> update.structs]>>

decode_v1(bytes) ==
    IF IsBlock(bytes, "update_v1") THEN Ok(Doc(bytes[1].update_v1))
    ELSE Err("Failed to decode update")

\* one operation on the text "content" or the map "metadata"
integrate(content, struct) ==
    IF struct.kind = "insert"
    THEN [content EXCEPT !.text = SubSeq(@, 1, struct.index) \o struct.text
                                  \o SubSeq(@, struct.index + 1, Len(@))]
    ELSE IF struct.kind = "remove_range"
    THEN [content EXCEPT !.text = SubSeq(@, 1, struct.index)
                                  \o SubSeq(@, struct.index + struct.length + 1, Len(@))]
    ELSE [content EXCEPT !.map = [k \in DOMAIN @ \cup {struct.key} |->
                                     IF k = struct.key THEN struct.value ELSE @[k]]]

RECURSIVE integrate_all(_, _)
integrate_all(content, structs) ==
    IF structs = <<>> THEN content
    ELSE integrate_all(integrate(content, Head(structs)), Tail(structs))

\* what a document holds: TextHandle::get_text and the entries of the map
contents(doc) == integrate_all([text |-> <<>>, map |-> <<>>], doc.structs)

get_text(doc) == contents(doc).text

\* txn.apply_update: the operations of the update the document has not seen
txn_apply_update(doc, update) ==
    Doc(doc.structs \o SubSeq(update.structs, Len(doc.structs) + 1, Len(update.structs)))

\* DocState::apply_update
apply_update(doc, bytes) ==
    IF ~decode_v1(bytes).ok THEN decode_v1(bytes)
    ELSE Ok(txn_apply_update(doc, decode_v1(bytes).val))

\* DocState::encode_state: Update::new() is what gets encoded; the
\* transaction on the document is opened and not used
encode_state(doc) == encode_v1(Update_new)

decode_state(state) == apply_update(DocState_new, state)

\* the threads that may call save_document on the path at the same time
\* no load_document call under way
NoReader == [pc |-> "idle", dir |-> <<>>, got |-> <<>>]

Savers == {1, 2}

\* no save_document call under way
Saver(pc, payload, alone, file_checksums, now) ==
    [pc |-> pc, payload |-> payload, alone |-> alone,
     file_checksums |-> file_checksums, now |-> now]

NoSavers == [s \in Savers |-> Saver("idle", EmptyPayload, TRUE, <<>>, 0)]

-----------------------------------------------------------------------------
(* State machine *)

Init ==
    /\ disk \in FoundFiles
    /\ origin = disk
    /\ clock = 0
    /\ last = [op |-> "none", req |-> <<>>, before |-> NoFile, res |-> Ok(<<>>)]
    /\ creates = 0
    /\ others = FALSE
    /\ assigned = IF load_document(disk).ok
                  THEN version_numbers(load_document(disk).val.versions) ELSE {}
    /\ written = [by |-> "found", payload |-> EmptyPayload, tamper |-> "none"]
    /\ savers = NoSavers
    /\ crdt = DocState_new
    /\ reader = NoReader

\* one command: `out` is its Outcome, `number` the versionNumber it assigned
Call(op, req, out, number) ==
    /\ clock < MaxCalls
    /\ clock' = clock + 1
    /\ disk' = out.disk
    /\ last' = [op |-> op, req |-> req, before |-> disk, res |-> out.res]
    /\ creates' = IF op = "create_version" THEN creates + 1 ELSE creates
    /\ others' = (others \/ op \in {"restore_version", "save_grokedoc", "load_grokedoc"})
    /\ assigned' = IF number = 0 THEN assigned ELSE assigned \cup {number}
    /\ written' = IF out.saved = None THEN written
                  ELSE [by |-> "save_document", payload |-> out.saved[1],
                        tamper |-> "none"]
    /\ UNCHANGED <<origin, savers, crdt, reader>>

assigned_number(out) == IF out.res.ok THEN out.res.val.version.version_number ELSE 0

CreateVersion ==
    \E req \in CreateRequests :
        \E out \in {create_version(disk, req.content, req.label, clock + 1, clock + 1)} :
            Call("create_version", req, out, assigned_number(out))

RestoreVersion ==
    \E id \in RequestIds :
        \E out \in {restore_version(disk, id, clock + 1, clock + 1)} :
            Call("restore_version", [version_id |-> id], out, assigned_number(out))

DeleteVersion ==
    \E id \in RequestIds :
        Call("delete_version", [version_id |-> id],
             delete_version(disk, id, clock + 1), 0)

SaveGrokedoc ==
    \E payload \in SavePayloads :
        Call("save_grokedoc", [payload |-> payload],
             save_grokedoc(disk, payload, clock + 1), 0)

LoadGrokedoc == Call("load_grokedoc", <<>>, load_grokedoc(disk), 0)

ListVersions == Call("list_versions", <<>>, list_versions(disk), 0)

GetVersion ==
    \E id \in RequestIds :
        Call("get_version", [version_id |-> id], get_version(disk, id), 0)

DiffVersions ==
    \E from_id \in StoredIds \cup {999}, to_id \in StoredIds \cup {999} :
        \E out \in diff_versions(disk, from_id, to_id) :
            Call("diff_versions", [from_version_id |-> from_id, to_version_id |-> to_id],
                 out, 0)

\* Someone else changes the file between two commands
Tampered(file, how) ==
    /\ disk.kind = "zip"
    /\ written.tamper = "none"
    /\ disk' = file
    /\ written' = [written EXCEPT !.tamper = how]
    /\ last' = [op |-> how, req |-> <<>>, before |-> disk, res |-> Ok(<<>>)]
    /\ others' = TRUE
    /\ UNCHANGED <<clock, creates, assigned, origin, savers, crdt, reader>>

\* the data of an entry with some byte changed; the archive's code for the
\* entry is not touched
flipped(data) == <<[corrupt |-> data]>>

FlipByte ==
    \E i \in DOMAIN disk.entries :
        Tampered([disk EXCEPT !.entries[i].data = flipped(@)], "flip_byte")

\* an entry rewritten as a whole, the archive's code for it with it
ReplacementData == {<<[raw |-> <<0>>]>>}

ReplaceEntry ==
    \E i \in DOMAIN disk.entries, data \in ReplacementData :
        /\ data # disk.entries[i].data
        /\ Tampered([disk EXCEPT !.entries[i] = ZipEntry(@.name, data)],
                    "replace_entry")

Next ==
    \/ CreateVersion
    \/ RestoreVersion
    \/ DeleteVersion
    \/ SaveGrokedoc
    \/ LoadGrokedoc
    \/ FlipByte
    \/ ReplaceEntry

Spec == Init /\ [][Next]_vars

\* The diff engine alone: compute_diff and the wasm diff() applied to two texts
RECURSIVE TextsOver(_, _)
\* the texts of at most n characters over a set of characters
TextsOver(chars, n) ==
    IF n = 0 THEN {<<>>}
    ELSE TextsOver(chars, n - 1)
         \cup {Append(t, c) : t \in {u \in TextsOver(chars, n - 1) : Len(u) = n - 1},
                              c \in chars}

ShortTexts == TextsOver({"a", "b", "\n"}, MaxChars)

\* the lines "1", "2", .., each with its line break, those in `edited` replaced by "x"
NumberedText(edited) ==
    Concat([k \in 1 .. MaxLines |->
               <<IF k \in edited THEN "x" ELSE ToString(k), "\n">>])

LongTexts ==
    {NumberedText(K) : K \in {{}, {1}, {5}, {MaxLines}, {1, MaxLines}, {1, 5}, {4, 5}}}

DiffInputs == (ShortTexts \X ShortTexts) \cup (LongTexts \X LongTexts)

DiffInit ==
    /\ disk = NoFile
    /\ origin = NoFile
    /\ clock = 0
    /\ last = [op |-> "none", req |-> <<>>, before |-> NoFile, res |-> Ok(<<>>)]
    /\ creates = 0
    /\ others = FALSE
    /\ assigned = {}
    /\ written = [by |-> "found", payload |-> EmptyPayload, tamper |-> "none"]
    /\ savers = NoSavers
    /\ crdt = DocState_new
    /\ reader = NoReader

\* a function applied once to its arguments: the request and the result are kept
Applied(op, req, res) ==
    /\ clock' = 1
    /\ last' = [op |-> op, req |-> req, before |-> NoFile, res |-> res]
    /\ UNCHANGED <<disk, creates, others, assigned, written, origin, savers, crdt, reader>>

ComputeDiff ==
    /\ clock = 0
    /\ \E texts \in DiffInputs :
           \E M \in Alignments(from_lines(texts[1]), from_lines(texts[2])) :
               Applied("compute_diff", [from |-> texts[1], to |-> texts[2]],
                       compute_diff(DocumentVersion_new(1, texts[1], None, 101, 0),
                                    DocumentVersion_new(2, texts[2], None, 102, 0), M))

WasmDiff ==
    /\ clock = 0
    /\ \E texts \in DiffInputs :
           \E M \in Alignments(from_lines(texts[1]), from_lines(texts[2])) :
               Applied("diff", [from |-> texts[1], to |-> texts[2]],
                       diff(texts[1], texts[2], M))

DiffNext == ComputeDiff \/ WasmDiff

DiffSpec == DiffInit /\ [][DiffNext]_vars

-----------------------------------------------------------------------------
(* to_text applied to piece tables of every shape *)

\* the most chunks of a piece table
MaxChunks == 2

\* the values a pos or a len holds: none, small ones, the largest usize
Offsets == {None, Some(0), Some(1), Some(UsizeMax)}

\* chunks as serde accepts them: every field may be missing
Chunks ==
    {OriginalChunk(0)}
    \cup {PieceChunk("insert", None, None, None, pos, data) :
             pos \in Offsets, data \in {None, Some(<<"c">>)}}
    \cup {PieceChunk("delete", None, len, None, pos, None) :
             pos \in Offsets, len \in Offsets}

RECURSIVE ChunkLists(_)
ChunkLists(n) ==
    IF n = 0 THEN {<<>>}
    ELSE ChunkLists(n - 1)
         \cup {Append(chunks, chunk) : chunks \in ChunkLists(n - 1), chunk \in Chunks}

BaseTexts == {<<>>, <<"a", "b">>, <<TwoByteChar, "a">>}

PieceTables ==
    {PieceTableContent(base_text, chunks) :
        base_text \in BaseTexts, chunks \in ChunkLists(MaxChunks)}

ToText ==
    /\ clock = 0
    /\ \E content \in PieceTables :
           \E res \in to_text(content) : Applied("to_text", content, res)

TextSpec == DiffInit /\ [][ToText]_vars

-----------------------------------------------------------------------------
(* save_document step by step, called by two threads on one path *)

\* saver s moves on to `next`; when it wrote to the file or cut it to no
\* bytes, the handles of the other savers no longer have the file to themselves
moved(s, next, touched) ==
    [t \in Savers |->
        IF t = s THEN next
        ELSE IF touched THEN [savers[t] EXCEPT !.alone = FALSE] ELSE savers[t]]

\* what the file holds after saver s wrote through its handle to make it
\* `intended`: that, when nobody else wrote to or cut the file since s opened
\* it; otherwise its bytes may lie among bytes of others
own_write(s, intended) ==
    IF savers[s].alone THEN {intended} ELSE {intended, GarbageFile}

SaveStep(file, next_savers) ==
    /\ disk' = file
    /\ savers' = next_savers
    /\ UNCHANGED <<clock, last, creates, others, assigned, written, origin, crdt, reader>>

\* the end of a call: Ok(()) or the error of a `?`
SaveReturn(s, file, res) ==
    /\ disk' = file
    /\ savers' = moved(s, [savers[s] EXCEPT !.pc = IF res.ok THEN "done" ELSE "failed"],
                       res.ok)
    /\ last' = [op |-> "save_document",
                req |-> [saver |-> s, payload |-> savers[s].payload],
                before |-> disk, res |-> res]
    /\ UNCHANGED <<clock, creates, others, assigned, written, origin, crdt, reader>>

\* File::create(path)?: the file is cut to no bytes
SaveCreate ==
    \E s \in Savers, payload \in SavePayloads :
        /\ savers[s].pc = "idle"
        /\ SaveStep(EmptyFile, moved(s, Saver("created", payload, TRUE, <<>>, 0), TRUE))

\* zip.start_file(..)?, zip.write_all(..)? for every entry
SaveEntries ==
    \E s \in Savers :
        /\ savers[s].pc = "created"
        /\ \E file \in own_write(s, PartialFile(payload_entries(savers[s].payload))) :
               SaveStep(file, moved(s, [savers[s] EXCEPT !.pc = "written"], TRUE))

\* zip.finish()?: the central directory ends the provisional archive
SaveFinish ==
    \E s \in Savers :
        /\ savers[s].pc = "written"
        /\ \E file \in own_write(s, ZipFile(payload_entries(savers[s].payload))) :
               SaveStep(file, moved(s, [savers[s] EXCEPT !.pc = "finished"], TRUE))

\* ZipArchive::new(File::open(path)?)? and the loop over its entries, then
\* Utc::now() for the manifest
SaveReadBack ==
    \E s \in Savers :
        /\ savers[s].pc = "finished"
        /\ IF disk.kind = "zip"
           THEN /\ clock' = clock + 1
                /\ disk' = disk
                /\ savers' = moved(s, [savers[s] EXCEPT
                                          !.pc = "read",
                                          !.file_checksums = read_back_checksums(disk.entries),
                                          !.now = clock + 1], FALSE)
                /\ UNCHANGED <<last, creates, others, assigned, written, origin, crdt, reader>>
           ELSE /\ SaveReturn(s, disk, Err(ZipError("InvalidArchive")))
                /\ UNCHANGED clock

\* the manifest-first archive built in the buffer
save_buffer(saver) ==
    ZipFile(final_entries(saver.payload,
                Manifest(saver.payload, sha256_hex(save_hash_input(saver.payload)),
                         saver.file_checksums, saver.now)))

\* fs::write(path, buffer)?, first half: File::create cuts the file to no bytes
SaveTruncate ==
    \E s \in Savers :
        /\ savers[s].pc = "read"
        /\ SaveStep(EmptyFile,
                    moved(s, [savers[s] EXCEPT !.pc = "truncated", !.alone = TRUE], TRUE))

\* fs::write(path, buffer)?, second half: write_all, and save_document returns
SaveWrite ==
    \E s \in Savers :
        /\ savers[s].pc = "truncated"
        /\ \E file \in own_write(s, save_buffer(savers[s])) :
               /\ SaveReturn(s, file, Ok(<<>>))
               /\ UNCHANGED clock

SaveNext ==
    \/ SaveCreate
    \/ SaveEntries
    \/ SaveFinish
    \/ SaveReadBack
    \/ SaveTruncate
    \/ SaveWrite

SaveSpec == Init /\ [][SaveNext]_vars

\* the std::io::Error of a write the system refuses (no space left, say)
IoWriteFailed == [kind |-> "Io", what |-> "write failed"]

\* zip.write_all(..)? or zip.finish()? fails: save_document returns the error
\* and leaves the file as it is by then
SaveWriteFails ==
    \E s \in Savers :
        /\ savers[s].pc \in {"created", "written"}
        /\ SaveReturn(s, disk, Err(IoWriteFailed))
        /\ UNCHANGED clock

SaveFailNext == SaveNext \/ SaveWriteFails

SaveFailSpec == Init /\ [][SaveFailNext]_vars

-----------------------------------------------------------------------------
(* create_version called by two threads on one path: each loads, appends and *)
(* saves, and the save goes step by step                                     *)

\* load_or_create_payload(&path)?, next_version_number, DocumentVersion::new
\* and payload.versions.push: the caller holds the payload it is going to
\* save, or returns the error of the load
CreateLoad ==
    \E s \in Savers, req \in CreateRequests :
        /\ savers[s].pc = "idle"
        /\ LET loaded  == load_or_create_payload(disk)
               version == DocumentVersion_new(next_version_number(loaded.val.versions),
                                              req.content, req.label, 200 + s, clock + 1)
           IN  IF loaded.ok
               THEN /\ savers' = moved(s, Saver("loaded",
                                                [loaded.val EXCEPT
                                                    !.versions = Append(@, to_value(version))],
                                                TRUE, <<>>, 0), FALSE)
                    /\ UNCHANGED last
               ELSE /\ savers' = moved(s, [savers[s] EXCEPT !.pc = "failed"], FALSE)
                    /\ last' = [op |-> "create_version", req |-> req,
                                before |-> disk, res |-> loaded]
        /\ UNCHANGED <<disk, clock, creates, others, assigned, written, origin, crdt, reader>>

\* save_document(&path, &payload)?, its File::create: the file is cut to no bytes
CreateOpen ==
    \E s \in Savers :
        /\ savers[s].pc = "loaded"
        /\ SaveStep(EmptyFile, moved(s, [savers[s] EXCEPT !.pc = "created", !.alone = TRUE],
                                     TRUE))

CreateNext ==
    \/ CreateLoad
    \/ CreateOpen
    \/ SaveEntries
    \/ SaveFinish
    \/ SaveReadBack
    \/ SaveTruncate
    \/ SaveWrite

CreateSpec == Init /\ [][CreateNext]_vars

-----------------------------------------------------------------------------
(* load_document step by step while one save_document writes the same path *)

\* bytes that are no entry's data: a read that met the file cut short or
\* half rewritten
TornData == <<[torn |-> TRUE]>>

\* what reading the k-th entry of the directory the reader holds can give.
\* While the file is the one the directory was read from, the entry's data.
\* Once the file was cut or rewritten, the bytes at the entry's place are the
\* writer's: the data the file now holds under that name, or bytes of no entry.
bytes_read(k) ==
    IF disk.kind = "zip" /\ disk.entries = reader.dir THEN {reader.dir[k].data}
    ELSE {TornData}
         \cup {disk.entries[i].data :
                  i \in {j \in DOMAIN disk.entries : disk.entries[j].name = reader.dir[k].name}}

ReadStep(next, touched_last) ==
    /\ reader' = next
    /\ touched_last
    /\ UNCHANGED <<disk, clock, creates, others, assigned, written, origin, savers, crdt>>

ReadReturn(res) ==
    ReadStep([reader EXCEPT !.pc = "done"],
             last' = [op |-> "load_document", req |-> <<>>, before |-> disk, res |-> res])

\* File::open(path)? and ZipArchive::new(file)?: the central directory is
\* read, or the call returns the error
LoadOpen ==
    /\ reader.pc = "idle"
    /\ IF disk.kind = "zip"
       THEN ReadStep([pc |-> "opened", dir |-> disk.entries, got |-> <<>>],
                     UNCHANGED last)
       ELSE ReadReturn(load_document(disk))

\* one entry read through the directory: the code kept for it is the
\* directory's, the data what the file holds by now
LoadReadEntry ==
    /\ reader.pc = "opened"
    /\ Len(reader.got) < Len(reader.dir)
    /\ \E data \in bytes_read(Len(reader.got) + 1) :
           ReadStep([reader EXCEPT
                        !.got = Append(@, [reader.dir[Len(reader.got) + 1] EXCEPT
                                              !.data = data])],
                    UNCHANGED last)

\* the checks and the decoding, over what was read
LoadFinish ==
    /\ reader.pc = "opened"
    /\ Len(reader.got) = Len(reader.dir)
    /\ ReadReturn(load_document(ZipFile(reader.got)))

\* one save_document call (saver 1) and one load_document call
ReadNext ==
    /\ \/ SaveCreate
       \/ SaveEntries
       \/ SaveFinish
       \/ SaveReadBack
       \/ SaveTruncate
       \/ SaveWrite
       \/ LoadOpen
       \/ LoadReadEntry
       \/ LoadFinish
    /\ savers'[2].pc = "idle"

ReadSpec == Init /\ [][ReadNext]_vars

-----------------------------------------------------------------------------
(* The CRDT document edited, encoded and decoded *)

\* the most operations on one document
MaxOps == 3

CrdtStep(op, req, res, doc) ==
    /\ crdt' = doc
    /\ last' = [op |-> op, req |-> req, before |-> NoFile, res |-> res]
    /\ UNCHANGED <<disk, clock, creates, others, assigned, written, origin, savers, reader>>

CrdtEdit(op, struct) ==
    /\ Len(crdt.structs) < MaxOps
    /\ CrdtStep(op, struct, Ok(<<>>), Doc(Append(crdt.structs, struct)))

\* TextHandle::insert within the text
TextInsert ==
    \E index \in 0 .. Len(get_text(crdt)), text \in {<<"a">>, <<"b", "c">>} :
        CrdtEdit("insert", [kind |-> "insert", index |-> index, text |-> text])

\* TextHandle::delete of a range of the text
TextDelete ==
    \E index \in 0 .. Len(get_text(crdt)) :
        \E length \in 1 .. Len(get_text(crdt)) - index :
            CrdtEdit("delete", [kind |-> "remove_range", index |-> index,
                                length |-> length])

\* MapHandle::set
MapSet ==
    \E key \in {"k", "j"}, value \in {"v", "w"} :
        CrdtEdit("set", [kind |-> "set", key |-> key, value |-> value])

\* decode_state(encode_state(&doc))
EncodeDecode ==
    /\ last.op # "decode_state"
    /\ CrdtStep("decode_state", crdt, decode_state(encode_state(crdt)), crdt)

CrdtNext == TextInsert \/ TextDelete \/ MapSet \/ EncodeDecode

CrdtSpec == DiffInit /\ [][CrdtNext]_vars

-----------------------------------------------------------------------------
(* Metadata of sizes around the threshold, saved and read *)

\* how far below and above the threshold the sizes of the metadata go
PadSpan == 30

\* metadata whose JSON takes MetadataThreshold - PadSpan .. MetadataThreshold
\* + PadSpan bytes, and the default one
MetadataInputs ==
    {DefaultMetadata}
    \cup {PaddedMetadata(n) :
             n \in (MetadataThreshold - 47 - PadSpan) .. (MetadataThreshold - 47 + PadSpan)}

FileStep(op, req, file) ==
    /\ disk' = file
    /\ clock' = clock + 1
    /\ last' = [op |-> op, req |-> req, before |-> disk, res |-> Ok(<<>>)]
    /\ UNCHANGED <<creates, others, assigned, written, origin, savers, crdt, reader>>

SaveMetadata ==
    /\ clock = 0
    /\ \E metadata \in MetadataInputs :
           FileStep("save_document",
                    [payload |-> [PlainPayload(<<>>) EXCEPT !.metadata = metadata]],
                    save_document([PlainPayload(<<>>) EXCEPT !.metadata = metadata], 1))

\* the other name of the metadata entry
other_label(name) ==
    IF name = "metadata.json" THEN "metadata.json.br" ELSE "metadata.json"

\* the archive with its metadata entry under the other name, in the manifest
\* as well: a file whose metadata name does not say what its bytes are
relabelled(entries) ==
    [i \in DOMAIN entries |->
        IF entries[i].name = "manifest.json"
        THEN ZipEntry("manifest.json",
                      json_to_string_pretty(
                          [read_manifest(entries).val EXCEPT
                              !.files.metadata = other_label(@)]))
        ELSE IF entries[i].name = read_manifest(entries).val.files.metadata
        THEN [entries[i] EXCEPT !.name = other_label(@)]
        ELSE entries[i]]

RelabelMetadata ==
    /\ clock = 1
    /\ FileStep("relabel", <<>>, ZipFile(relabelled(disk.entries)))

MetadataNext == SaveMetadata \/ RelabelMetadata

MetadataSpec == DiffInit /\ [][MetadataNext]_vars

-----------------------------------------------------------------------------
(* Archives with entries missing, loaded *)

\* a sequence without the elements at the positions in `gone`
RECURSIVE Without(_, _)
Without(seq, gone) ==
    IF seq = <<>> THEN <<>>
    ELSE (IF 1 \in gone THEN <<>> ELSE <<Head(seq)>>)
         \o Without(Tail(seq), {k - 1 : k \in gone \ {1}})

\* an archive another writer made for the payload: the manifest lists a path
\* for every version, the versions at the positions in `gone` have no entry,
\* and the checksum is the one load_document computes from what is there
sparse_archive(payload, gone, now) ==
    LET present == [payload EXCEPT !.versions = Without(@, gone)]
        entries == SelectSeq(payload_entries(payload),
                             LAMBDA e : \A k \in gone : e.name # version_path(k))
    IN  ZipFile(<<ZipEntry("manifest.json",
                           json_to_string_pretty(
                               Manifest(payload,
                                        sha256_hex(load_hash_input(
                                            PieceTableContent(payload.base_text,
                                                              payload.chunks),
                                            payload.metadata, payload.document_tree,
                                            present.versions, payload.assets)),
                                        read_back_checksums(entries), now)))>>
                \o entries)

ThreeVersions ==
    PlainPayload(<<StoredVersion(101, 1, <<"a">>), StoredVersion(102, 2, <<"b">>),
                   StoredVersion(103, 3, <<"c">>)>>)

SparseFiles == {sparse_archive(ThreeVersions, gone, 0) : gone \in {{2}, {1, 3}, {1, 2, 3}}}

LoadInit ==
    /\ disk \in FoundFiles \cup SparseFiles
    /\ origin = disk
    /\ clock = 0
    /\ last = [op |-> "none", req |-> <<>>, before |-> NoFile, res |-> Ok(<<>>)]
    /\ creates = 0
    /\ others = FALSE
    /\ assigned = {}
    /\ written = [by |-> "found", payload |-> EmptyPayload, tamper |-> "none"]
    /\ savers = NoSavers
    /\ crdt = DocState_new
    /\ reader = NoReader

\* an entry taken out of the archive; the manifest stays as it is
RemoveEntry ==
    \E i \in DOMAIN disk.entries :
        /\ disk.entries[i].name # "manifest.json"
        /\ Tampered([disk EXCEPT !.entries = Without(@, {i})], "remove_entry")

LoadNext == RemoveEntry \/ LoadGrokedoc

LoadSpec == LoadInit /\ [][LoadNext]_vars

\* The version commands alone, on a file nobody else touches
VersionNext ==
    \/ CreateVersion
    \/ RestoreVersion
    \/ DeleteVersion
    \/ ListVersions
    \/ GetVersion
    \/ DiffVersions

VersionSpec == Init /\ [][VersionNext]_vars

-----------------------------------------------------------------------------
(* What the claims speak of *)

\* the version records held by the version entries of a file, in manifest order
stored_versions(file) ==
    IF file.kind # "zip" \/ ~read_manifest(file.entries).ok THEN <<>>
    ELSE IF ~read_versions(file.entries,
                           read_manifest(file.entries).val.files.versions).ok THEN <<>>
    ELSE read_versions(file.entries, read_manifest(file.entries).val.files.versions).val

\* the file at path is exactly what save_document wrote
Untouched == written.by = "save_document" /\ written.tamper = "none"

VersionCommands == {"create_version", "restore_version", "delete_version"}

\* the last command stored a new version
Assigned == last.op \in {"create_version", "restore_version"} /\ last.res.ok

-----------------------------------------------------------------------------
(* C1 - C10 *)

\* C1: load_document of a file save_document wrote succeeds and returns the
\* base text, chunks, metadata, versions and assets that were saved.
C1_RoundTrip ==
    (last.op = "load_grokedoc" /\ Untouched) =>
        /\ last.res.ok
        /\ last.res.val.base_text = written.payload.base_text
        /\ last.res.val.chunks = written.payload.chunks
        /\ last.res.val.metadata = written.payload.metadata
        /\ last.res.val.versions = written.payload.versions
        /\ last.res.val.assets = written.payload.assets

\* C2: load_document of a saved file in which one byte of an entry was
\* changed fails with StorageError::Integrity.
C2_TamperIsIntegrityError ==
    (/\ last.op = "load_grokedoc"
     /\ written.by = "save_document"
     /\ written.tamper = "flip_byte") =>
        (~last.res.ok /\ last.res.err.kind = "Integrity")

\* C3: for a file save_document wrote, the checksum load_document recomputes
\* equals manifest.checksum: the payload-checksum comparison passes.
C3_ChecksumAgrees ==
    Untouched =>
        (load_document(disk).ok
         \/ load_document(disk).err.what # "payload checksum mismatch")

\* C4: when the code the archive records for some entry differs from the code
\* manifest.fileChecksums holds for that entry's name, load_document fails
\* with an integrity error that names such an entry, the expected and the
\* actual code.
C4_CrcMismatchReported ==
    (/\ last.op = "load_grokedoc"
     /\ last.before.kind = "zip"
     /\ read_manifest(last.before.entries).ok) =>
        LET entries  == last.before.entries
            recorded == read_manifest(entries).val.fileChecksums
            differ   == {i \in DOMAIN entries :
                            /\ entries[i].name \in DOMAIN recorded
                            /\ recorded[entries[i].name] # crc_hex(entries[i].crc)}
        IN  differ # {} =>
                /\ ~last.res.ok
                /\ last.res.err.kind = "Integrity"
                /\ last.res.err.what = "crc mismatch"
                /\ \E i \in differ :
                       /\ last.res.err.entry = entries[i].name
                       /\ last.res.err.expected = recorded[entries[i].name]
                       /\ last.res.err.actual = crc_hex(entries[i].crc)

C4_Witness ==
    /\ last.op = "load_grokedoc"
    /\ last.before.kind = "zip"
    /\ written.tamper = "replace_entry"
    /\ ~last.res.ok
    /\ last.res.err.what = "crc mismatch"

\* C5: starting from a nonexistent file, with nothing but create_version and
\* delete_version calls, every create_version succeeds and the N-th one
\* returns versionNumber N.
C5_CreatesNumbered ==
    (origin = NoFile /\ ~others /\ last.op = "create_version") =>
        (last.res.ok /\ last.res.val.version.version_number = creates)

C8_SurvivorsUnchanged ==
    (last.op \in VersionCommands /\ last.res.ok) =>
        LET before == stored_versions(last.before)
            kept   == IF last.op # "delete_version" THEN before
                      ELSE SelectSeq(before,
                               LAMBDA v : ~("id" \in DOMAIN v
                                            /\ v.id = last.req.version_id))
            after  == stored_versions(disk)
        IN  /\ Len(after) >= Len(kept)
            /\ SubSeq(after, 1, Len(kept)) = kept

C8_Witness ==
    /\ last.op = "delete_version"
    /\ last.res.ok
    /\ Len(stored_versions(disk)) >= 1
    /\ Len(stored_versions(last.before)) > Len(stored_versions(disk))

\* C9: after a successful restore_version of a stored version V, loading the
\* file yields a payload whose to_text equals V.content and whose versions
\* are the previous ones plus one new record with V's content.
C9_RestoreThenLoad ==
    (last.op = "restore_version" /\ last.res.ok) =>
        LET target == find_version(stored_versions(last.before), last.req.version_id).val
            loaded == load_document(disk)
        IN  /\ loaded.ok
            /\ to_text(PieceTableContent(loaded.val.base_text, loaded.val.chunks))
                   = {Ok(target.content)}
            /\ Len(loaded.val.versions) = Len(stored_versions(last.before)) + 1
            /\ SubSeq(loaded.val.versions, 1, Len(stored_versions(last.before)))
                   = stored_versions(last.before)
            /\ loaded.val.versions[Len(loaded.val.versions)].content = target.content

\* C10: create_version on a path without a file succeeds, returns
\* versionNumber 1 and leaves a file holding the empty content (empty base
\* text, one Original chunk of offset 0 and len 0), no asset and exactly the
\* one new version; when loading fails for another reason than a missing
\* file, create_version fails and the file is not written.
C10_CreateOnMissingFile ==
    /\ (last.op = "create_version" /\ last.before = NoFile) =>
           /\ last.res.ok
           /\ last.res.val.version.version_number = 1
           /\ disk.kind = "zip"
           /\ read_content(disk.entries, read_manifest(disk.entries).val)
                  = Ok(PieceTableContent(<<>>, <<OriginalChunk(0)>>))
           /\ read_manifest(disk.entries).val.files.assets = <<>>
           /\ stored_versions(disk) = <<to_value(last.res.val.version)>>
    /\ (/\ last.op = "create_version"
        /\ ~load_document(last.before).ok
        /\ load_document(last.before).err # IoNotFound) =>
           (~last.res.ok /\ disk = last.before)

\* a second create_version, on the file the first one made from nothing,
\* met a load failure
C10_Witness ==
    /\ origin = NoFile
    /\ last.op = "create_version"
    /\ last.before.kind = "zip"
    /\ ~last.res.ok
    /\ assigned = {1}

-----------------------------------------------------------------------------
(* C11 - C20 *)

\* the entries of a file other than the manifest and the version entries,
\* as a function from their names to their data: content, metadata, document
\* tree, the assets and the asset relations
stored_parts(file) ==
    LET kept == {i \in DOMAIN file.entries :
                    /\ file.entries[i].name # "manifest.json"
                    /\ \A k \in 1 .. Len(file.entries) :
                           file.entries[i].name # version_path(k)}
    IN  [n \in {file.entries[i].name : i \in kept} |-> by_name(file.entries, n)[1].data]

\* C11: a create_version that succeeds on an existing document changes only
\* the versions list, by appending one record at the end: content, metadata
\* and assets in the saved file are what they were, the earlier records are
\* followed by the new one, and the returned summaries cover every stored
\* record, the new one included.
C11_CreateAppendsOnly ==
    (last.op = "create_version" /\ last.res.ok /\ last.before.kind = "zip") =>
        /\ stored_parts(disk) = stored_parts(last.before)
        /\ stored_versions(disk)
               = Append(stored_versions(last.before), to_value(last.res.val.version))
        /\ Len(last.res.val.all_versions) = Len(stored_versions(disk))
        /\ \A i \in DOMAIN last.res.val.all_versions :
               last.res.val.all_versions[i].id = stored_versions(disk)[i].id

\* C12 (amended): delete_version on a document that loads: when some stored
\* record has the id, the saved versions list is the previous list without
\* the records of that id, the others unchanged and in order, and the
\* returned summaries describe, in order, the remaining records that parse as
\* a DocumentVersion; when no record has the id it fails with NotFound(id)
\* and writes nothing.
C12_DeleteRemovesById ==
    (last.op = "delete_version" /\ load_document(last.before).ok) =>
        LET before == stored_versions(last.before)
            id     == last.req.version_id
            others_kept == SelectSeq(before, LAMBDA v : ~("id" \in DOMAIN v /\ v.id = id))
            shown  == SelectSeq(others_kept, LAMBDA v : from_value(v).ok)
        IN  IF \E i \in DOMAIN before : "id" \in DOMAIN before[i] /\ before[i].id = id
            THEN /\ last.res.ok
                 /\ stored_versions(disk) = others_kept
                 /\ Len(last.res.val.versions) = Len(shown)
                 /\ \A i \in DOMAIN shown :
                        /\ last.res.val.versions[i].id = shown[i].id
                        /\ last.res.val.versions[i].version_number = shown[i].versionNumber
                        /\ last.res.val.versions[i].content_hash = shown[i].contentHash
                        /\ last.res.val.versions[i].char_count = Len(shown[i].content)
            ELSE /\ last.res = Err(NotFound(id))
                 /\ disk = last.before

\* C12 as stated: the returned summaries describe every remaining record.
C12_SummariesOfAllRemaining ==
    (last.op = "delete_version" /\ last.res.ok) =>
        /\ Len(last.res.val.versions) = Len(stored_versions(disk))
        /\ \A i \in DOMAIN last.res.val.versions :
               last.res.val.versions[i].id = stored_versions(disk)[i].id

\* a delete_version that left a record of a newer schema behind
C12_Witness ==
    /\ last.op = "delete_version"
    /\ last.res.ok
    /\ last.res.val.versions = <<>>
    /\ Len(stored_versions(disk)) = 1
    /\ Len(stored_versions(last.before)) = 2

\* the first stored record with the id, None when there is none
first_with_id(versions, id) ==
    LET hits == {i \in DOMAIN versions : "id" \in DOMAIN versions[i] /\ versions[i].id = id}
    IN  IF hits = {} THEN None ELSE Some(versions[Least(hits)])

\* C13 as stated: on a document that loads, get_version returns the stored
\* version with the requested id when one exists and fails with NotFound(id)
\* when none does; diff_versions fails with NotFound when fromVersionId or
\* toVersionId is not the id of a stored version; neither writes the file.
C13_GetAndDiffNotFound ==
    /\ (last.op \in {"get_version", "diff_versions"}) => disk = last.before
    /\ (last.op = "get_version" /\ load_document(last.before).ok) =>
           LET hit == first_with_id(stored_versions(last.before), last.req.version_id)
           IN  IF hit = None THEN last.res = Err(NotFound(last.req.version_id))
               ELSE last.res.ok /\ to_value(last.res.val.version) = hit[1]
    /\ (/\ last.op = "diff_versions"
        /\ load_document(last.before).ok
        /\ \/ first_with_id(stored_versions(last.before), last.req.from_version_id) = None
           \/ first_with_id(stored_versions(last.before), last.req.to_version_id) = None) =>
           (~last.res.ok /\ last.res.err.kind = "NotFound")

\* C13 (amended): on a document that loads, get_version returns the first
\* stored record with the requested id when that record parses as a
\* DocumentVersion, fails with a serialization error when it does not parse,
\* and fails with NotFound(id) when no record has the id; diff_versions
\* resolves fromVersionId and then toVersionId in the same way and fails with
\* the first failure it meets, NotFound carrying the id that is not stored;
\* neither writes the file.
C13_GetAndDiffResolve ==
    /\ (last.op \in {"get_version", "diff_versions"}) => disk = last.before
    /\ (last.op = "get_version" /\ load_document(last.before).ok) =>
           LET hit == first_with_id(stored_versions(last.before), last.req.version_id)
           IN  IF hit = None THEN last.res = Err(NotFound(last.req.version_id))
               ELSE IF RequiredVersionKeys \subseteq DOMAIN hit[1]
               THEN last.res.ok /\ to_value(last.res.val.version) = hit[1]
               ELSE ~last.res.ok /\ last.res.err.kind = "Serialization"
    /\ (last.op = "diff_versions" /\ load_document(last.before).ok) =>
           LET from == first_with_id(stored_versions(last.before),
                                     last.req.from_version_id)
               to   == first_with_id(stored_versions(last.before), last.req.to_version_id)
           IN  IF from = None THEN last.res = Err(NotFound(last.req.from_version_id))
               ELSE IF ~(RequiredVersionKeys \subseteq DOMAIN from[1])
               THEN ~last.res.ok /\ last.res.err.kind = "Serialization"
               ELSE IF to = None THEN last.res = Err(NotFound(last.req.to_version_id))
               ELSE IF ~(RequiredVersionKeys \subseteq DOMAIN to[1])
               THEN ~last.res.ok /\ last.res.err.kind = "Serialization"
               ELSE /\ last.res.ok
                    /\ last.res.val.from_version_id = last.req.from_version_id
                    /\ last.res.val.to_version_id = last.req.to_version_id

\* a diff_versions whose fromVersionId is stored and whose toVersionId is not
C13_Witness ==
    /\ last.op = "diff_versions"
    /\ load_document(last.before).ok
    /\ last.req.from_version_id = 101
    /\ last.res = Err(NotFound(999))

\* C14: list_versions on a document that loads returns one summary for each
\* stored record that parses as a DocumentVersion, in stored order, leaves out
\* the records that do not parse, and reports as currentVersionNumber the
\* largest versionNumber among the returned summaries, 0 when there are none.
C14_ListSummaries ==
    (last.op = "list_versions" /\ load_document(last.before).ok) =>
        LET shown == SelectSeq(stored_versions(last.before),
                               LAMBDA v : RequiredVersionKeys \subseteq DOMAIN v)
            listed == last.res.val.versions
        IN  /\ last.res.ok
            /\ Len(listed) = Len(shown)
            /\ \A i \in DOMAIN shown :
                   /\ listed[i].id = shown[i].id
                   /\ listed[i].version_number = shown[i].versionNumber
                   /\ listed[i].created_at = shown[i].createdAt
                   /\ listed[i].content_hash = shown[i].contentHash
                   /\ listed[i].char_count = Len(shown[i].content)
            /\ \A i \in DOMAIN listed :
                   listed[i].version_number <= last.res.val.current_version_number
            /\ IF listed = <<>> THEN last.res.val.current_version_number = 0
               ELSE \E i \in DOMAIN listed :
                        listed[i].version_number = last.res.val.current_version_number

\* a list_versions that left a record out, with numbers that are not 1, 2, ..
C14_Witness ==
    /\ last.op = "list_versions"
    /\ last.res.ok
    /\ Len(last.res.val.versions) = 1
    /\ Len(stored_versions(last.before)) = 2
    /\ last.res.val.current_version_number = 2

\* the quotient is 1.0
IsOne(ratio) == ratio.den > 0 /\ ratio.num = ratio.den

\* C15: diffing a text with itself gives additions = 0, deletions = 0 and
\* similarity = 1.0, for every text, the empty one included (where the total
\* is 0 and the similarity is still 1.0), in compute_diff and in the wasm
\* diff().
C15_IdenticalTexts ==
    /\ (last.op = "compute_diff" /\ last.req.from = last.req.to) =>
           /\ last.res.additions = 0
           /\ last.res.deletions = 0
           /\ IsOne(last.res.similarity)
    /\ (last.op = "diff" /\ last.req.from = last.req.to) =>
           /\ last.res.insertions = 0
           /\ last.res.deletions = 0
           /\ IsOne(last.res.similarity)

\* the version diff of the empty text with itself
C15_Witness ==
    /\ last.op = "compute_diff"
    /\ last.req.from = <<>>
    /\ last.req.to = <<>>
    /\ last.res.unchanged = 0

\* the lines of all hunks of a version diff, in order
all_lines(version_diff_result) ==
    Concat([h \in DOMAIN version_diff_result.hunks |->
               version_diff_result.hunks[h].lines])

\* the contents of the lines of one kind, in order
contents_of(lines, kind) ==
    LET of_kind == SelectSeq(lines, LAMBDA l : l.kind = kind)
    IN  [i \in DOMAIN of_kind |-> of_kind[i].content]

\* the positions within the context radius of position k, k itself left out
near(k, n) == {i \in 1 .. n : i # k /\ i - k <= ContextRadius /\ k - i <= ContextRadius}

\* the members of a set of positions, in rising order
RECURSIVE in_order(_)
in_order(S) == IF S = {} THEN <<>> ELSE <<Least(S)>> \o in_order(S \ {Least(S)})

is_inert(text, chunk) ==
    \/ /\ chunk.type = "insert"
       /\ chunk.pos # None
       /\ chunk.data # None
       /\ chunk.pos[1] > str_len(text)
    \/ /\ chunk.type = "delete"
       /\ chunk.pos # None
       /\ chunk.len # None
       /\ chunk.pos[1] >= Min(chunk.pos[1] + chunk.len[1], str_len(text))

\* a sequence without its i-th element
without(seq, i) == SubSeq(seq, 1, i - 1) \o SubSeq(seq, i + 1, Len(seq))

\* C17: in to_text an Insert chunk whose pos is greater than the current
\* text length and a Delete chunk whose pos is not less than
\* min(pos + len, current length) leave the accumulated text unchanged and
\* raise no error, and the chunks after it are still applied: the result is
\* the one to_text has without that chunk.
C17_InertChunks ==
    last.op = "to_text" =>
        \A i \in DOMAIN last.req.chunks :
            \A before \in apply_chunks(Ok(last.req.base_text),
                                       SubSeq(last.req.chunks, 1, i - 1)) :
                (before.ok /\ is_inert(before.val, last.req.chunks[i])) =>
                    /\ apply_chunk(before.val, last.req.chunks[i]) = {Ok(before.val)}
                    /\ to_text(last.req)
                           = to_text([last.req EXCEPT !.chunks = without(@, i)])

\* C18: to_text returns a text, without a panic, for every base text and
\* every chunk sequence, whatever pos, len, offset and data hold, missing
\* fields and a Delete whose pos + len exceeds the integer range included.
C18_NeverPanics ==
    last.op = "to_text" => last.res.ok

\* C19: a payload whose metadata encodes below the 1024-byte threshold
\* (stored raw) and one whose metadata encodes above it (stored compressed)
\* both come back from load_document after save_document with the metadata
\* that was saved.
C19_MetadataComesBack ==
    (last.op = "load_grokedoc" /\ Untouched) =>
        (last.res.ok /\ last.res.val.metadata = written.payload.metadata)

\* the manifest of a file save_document wrote
manifest_of(file) == read_manifest(file.entries).val

\* the times a save can carry
SaveTimes == 1 .. MaxCalls + 1

\* C20: saving two equal payloads at different times produces the same
\* manifest.checksum: a payload saved over a file that an earlier save of an
\* equal payload wrote leaves the checksum as it was, and the checksum on
\* disk is the one a save of that payload at any other time gives; it does
\* not depend on lastModified, nor on the names and positions of the assets.
C20_ChecksumDeterministic ==
    /\ (/\ last.op = "save_grokedoc"
        /\ \E earlier \in SaveTimes :
               /\ earlier # clock
               /\ last.before = save_document(last.req.payload, earlier)) =>
           manifest_of(disk).checksum = manifest_of(last.before).checksum
    /\ Untouched =>
           \A now \in SaveTimes :
               manifest_of(save_document(written.payload, now)).checksum
                   = manifest_of(disk).checksum
    /\ Untouched =>
           \A name \in AssetNames :
               manifest_of(save_document(
                   [written.payload EXCEPT
                       !.assets = [i \in DOMAIN @ |->
                                      [@[i] EXCEPT !.name = name, !.target_pos = 0]]],
                   clock)).checksum = manifest_of(disk).checksum

\* the same payload saved twice in a row: lastModified moved on
C20_Witness ==
    /\ last.op = "save_grokedoc"
    /\ last.before = save_document(last.req.payload, clock - 1)
    /\ disk = save_document(last.req.payload, clock)
    /\ manifest_of(disk).lastModified # manifest_of(last.before).lastModified

-----------------------------------------------------------------------------
(* C21 - C30 *)

\* a save_document call is between its File::create and its return
Saving(s) == savers[s].pc \in {"created", "written", "finished", "read", "truncated"}

\* a complete archive that starts with the manifest
manifest_first(file) ==
    /\ file.kind = "zip"
    /\ file.entries # <<>>
    /\ file.entries[1].name = "manifest.json"

\* C21: save_document replaces the file at path in one operation: at every
\* point during a save the file holds either its complete previous contents
\* or a complete final manifest-first archive, never an empty, partial or
\* manifest-less intermediate archive.
C21_ReplacedInOneOperation ==
    (\E s \in Savers : Saving(s)) => (disk = origin \/ manifest_first(disk))

\* C22: when two save_document calls on the same path ran concurrently and
\* both returned success, the file is an archive that load_document accepts
\* and that decodes to the payload of the call that returned last.
C22_LastWriterWins ==
    (\A s \in Savers : savers[s].pc = "done") =>
        /\ load_document(disk).ok
        /\ load_document(disk).val = last.req.payload

\* C23: the bytes of encode_state hold the full state of the document:
\* decode_state(encode_state(doc)) is a document with the same text and map
\* contents as doc, after any sequence of text inserts, text deletes and
\* map sets.
C23_EncodeDecode ==
    last.op = "decode_state" =>
        /\ last.res.ok
        /\ contents(last.res.val) = contents(last.req)

\* the UTF-8 bytes of a text, one element per byte
utf8(text) ==
    Concat([i \in DOMAIN text |->
               IF text[i] = TwoByteChar THEN <<"C3", "A9">> ELSE <<text[i]>>])

\* one step of the fold C24 describes, over bytes and unbounded integers
fold_step(bytes, chunk) ==
    IF chunk.type = "insert" /\ chunk.pos # None /\ chunk.data # None
       /\ chunk.pos[1] <= Len(bytes)
    THEN SubSeq(bytes, 1, chunk.pos[1]) \o utf8(chunk.data[1])
         \o SubSeq(bytes, chunk.pos[1] + 1, Len(bytes))
    ELSE IF chunk.type = "delete" /\ chunk.pos # None /\ chunk.len # None
            /\ chunk.pos[1] < Min(chunk.pos[1] + chunk.len[1], Len(bytes))
    THEN SubSeq(bytes, 1, chunk.pos[1])
         \o SubSeq(bytes, Min(chunk.pos[1] + chunk.len[1], Len(bytes)) + 1, Len(bytes))
    ELSE bytes

RECURSIVE fold_left(_, _)
fold_left(bytes, chunks) ==
    IF chunks = <<>> THEN bytes
    ELSE fold_left(fold_step(bytes, Head(chunks)), Tail(chunks))

\* C24: the text to_text returns is the left-to-right fold of the chunks over
\* the text accumulated so far, starting from baseText: an Insert with
\* pos <= length puts data at pos, a Delete removes
\* [pos, min(pos + len, length)), an Original chunk changes nothing.
C24_LeftToRightFold ==
    (last.op = "to_text" /\ last.res.ok) =>
        utf8(last.res.val) = fold_left(utf8(last.req.base_text), last.req.chunks)

\* the metadata entry of an archive, by the name the manifest gives
metadata_entry(file) == by_name(file.entries, manifest_of(file).files.metadata)[1]

\* C25: save_document stores metadata raw under metadata.json when its JSON
\* takes at most 1024 bytes and compressed under metadata.json.br when it
\* takes more; the name carries the marker exactly when the stored bytes are
\* compressed; and load_document decompresses exactly when the name carries
\* the marker: it gets the saved metadata back from a saved file, takes the
\* bytes as they are under a name without marker and decompresses them under
\* a name with it.
C25_MetadataStorage ==
    /\ last.op = "save_document" =>
           LET metadata == last.req.payload.metadata
               name == manifest_of(disk).files.metadata
           IN  /\ MetadataJsonLen(metadata) <= 1024 =>
                      /\ name = "metadata.json"
                      /\ metadata_entry(disk).data = json_to_string(metadata)
               /\ MetadataJsonLen(metadata) > 1024 =>
                      /\ name = "metadata.json.br"
                      /\ metadata_entry(disk).data = brotli(json_to_string(metadata))
               /\ ends_with_br(name) <=> IsBlock(metadata_entry(disk).data, "br")
               /\ Cardinality({i \in DOMAIN disk.entries :
                                  disk.entries[i].name
                                      \in {"metadata.json", "metadata.json.br"}}) = 1
               /\ read_metadata(disk.entries, manifest_of(disk)) = Ok(metadata)
    /\ last.op = "relabel" =>
           LET name == manifest_of(disk).files.metadata
               data == metadata_entry(disk).data
               read == read_metadata(disk.entries, manifest_of(disk))
           IN  IF name = "metadata.json"
               THEN read = json_from_slice(data) /\ ~read.ok
               ELSE ~read.ok /\ read.err.kind = "Io"

\* metadata of exactly 1024 bytes was saved, and metadata of 1025 bytes
C25_Witness ==
    /\ last.op = "save_document"
    /\ MetadataJsonLen(last.req.payload.metadata) \in {1024, 1025}
    /\ (MetadataJsonLen(last.req.payload.metadata) = 1024
            <=> manifest_of(disk).files.metadata = "metadata.json")

\* the entry names C26 lists for a payload, in its order
names_in_order(payload) ==
    <<"manifest.json", "content.cbor">>
    \o (IF MetadataJsonLen(payload.metadata) <= 1024 THEN <<"metadata.json">>
        ELSE <<"metadata.json.br">>)
    \o (IF payload.document_tree = None THEN <<>> ELSE <<"documentTree.json">>)
    \o [i \in DOMAIN payload.versions |->
           "versions/delta-" \o ToString(i) \o ".jsonpatch"]
    \o [i \in DOMAIN payload.assets |-> "assets/" \o payload.assets[i].name]
    \o <<"assets/rels.json">>

\* C26: in every file save_document wrote, manifest.json is the first entry,
\* followed by content, metadata, the optional document tree, the version
\* entries in list order, the asset entries in list order and
\* assets/rels.json, with the bytes of the provisional archive;
\* manifest.fileChecksums holds exactly one code for every entry other than
\* manifest.json, the entry's code in the final archive.
C26_FinalArchiveLayout ==
    Untouched =>
        LET payload == written.payload
            names == names_in_order(payload)
            codes == manifest_of(disk).fileChecksums
        IN  /\ [i \in DOMAIN disk.entries |-> disk.entries[i].name] = names
            /\ Tail(disk.entries) = payload_entries(payload)
            /\ \A i \in DOMAIN payload.versions :
                   disk.entries[Len(names) - Len(payload.assets) - 1
                                - Len(payload.versions) + i].data
                       = json_to_string_pretty(payload.versions[i])
            /\ \A i \in DOMAIN payload.assets :
                   disk.entries[Len(names) - 1 - Len(payload.assets) + i].data
                       = asset_bytes(payload.assets[i])
            /\ DOMAIN codes = {names[i] : i \in 2 .. Len(names)}
            /\ Cardinality(DOMAIN codes) = Len(names) - 1
            /\ \A i \in 2 .. Len(disk.entries) :
                   codes[disk.entries[i].name] = crc_hex(entry_crc32(disk.entries[i]))

\* a file with a document tree, two versions and an asset was written
C26_Witness ==
    /\ Untouched
    /\ written.payload.document_tree # None
    /\ Len(written.payload.versions) >= 2
    /\ written.payload.assets # <<>>

\* the stored records of a file that carry an id
records_with_id(file, id) ==
    SelectSeq(stored_versions(file), LAMBDA v : "id" \in DOMAIN v /\ v.id = id)

\* C27: the version restore_version creates from a target whose
\* versionNumber is N has the label "Restored from version N", in the
\* response and in the file: N is the target's number, not the new one's.
C27_RestoredLabel ==
    (last.op = "restore_version" /\ last.res.ok) =>
        LET target == records_with_id(last.before, last.req.version_id)[1]
            label  == "Restored from version " \o ToString(target.versionNumber)
            stored == stored_versions(disk)
        IN  /\ last.res.val.version.label = Some(label)
            /\ stored[Len(stored)].label = label
            /\ last.res.val.version.version_number # target.versionNumber

\* version 1 restored in a file that holds versions 1 and 3
C27_Witness ==
    /\ last.op = "restore_version"
    /\ last.res.ok
    /\ last.res.val.version.version_number = 4
    /\ last.res.val.version.label = Some("Restored from version 1")

\* a function without one of its arguments
except_for(f, name) == [n \in DOMAIN f \ {name} |-> f[n]]

\* C28: a successful restore_version leaves a file whose content is the
\* target's content as base text with a single Original chunk (offset 0, len
\* the length of that content), and whose metadata, assets, document tree
\* and earlier version records are what they were.
C28_RestoreReplacesContent ==
    (last.op = "restore_version" /\ last.res.ok) =>
        LET target == records_with_id(last.before, last.req.version_id)[1]
        IN  /\ read_content(disk.entries, manifest_of(disk))
                   = Ok(PieceTableContent(
                            target.content,
                            <<PieceChunk("original", Some(0),
                                         Some(str_len(target.content)),
                                         Some("baseText"), None, None)>>))
            /\ except_for(stored_parts(disk), "content.cbor")
                   = except_for(stored_parts(last.before), "content.cbor")
            /\ SubSeq(stored_versions(disk), 1, Len(stored_versions(last.before)))
                   = stored_versions(last.before)

\* the version paths of a file's manifest that have no entry in the archive
absent_versions(file) ==
    {k \in DOMAIN manifest_of(file).files.versions :
        by_name(file.entries, manifest_of(file).files.versions[k]) = None}

\* the version entries of a file that are there, decoded, in manifest order
present_versions(file) ==
    LET paths == Without(manifest_of(file).files.versions, absent_versions(file))
    IN  [k \in DOMAIN paths |->
            json_from_slice(by_name(file.entries, paths[k])[1].data).val]

\* C29 as stated: when a version path of the manifest is absent from the
\* archive, as after a version entry was taken out of a valid file,
\* load_document skips it and still succeeds, returning the remaining
\* versions in manifest order.
C29_MissingVersionSkipped ==
    (/\ last.op = "load_grokedoc"
     /\ load_document(origin).ok
     /\ written.tamper \in {"none", "remove_entry"}
     /\ absent_versions(last.before) # {}
     /\ Len(last.before.entries) + Cardinality(absent_versions(last.before))
            = Len(origin.entries) + Cardinality(absent_versions(origin))) =>
        /\ last.res.ok
        /\ last.res.val.versions = present_versions(last.before)

\* C29 (amended): a version path of the manifest that is absent from the
\* archive raises no error of its own: load_document goes on as if the path
\* were not listed, with the remaining versions in manifest order; it
\* succeeds, returning them, when manifest.checksum is the checksum of the
\* payload without the absent versions, and fails with a payload checksum
\* mismatch when a version entry was taken out of a file it accepted.
C29_MissingVersionNoError ==
    (/\ last.op = "load_grokedoc"
     /\ last.before.kind = "zip"
     /\ read_manifest(last.before.entries).ok
     /\ absent_versions(last.before) # {}) =>
        /\ last.res
               = load_archive(last.before.entries,
                              Ok([manifest_of(last.before) EXCEPT
                                     !.files.versions =
                                         Without(@, absent_versions(last.before))]))
        /\ last.res.ok => last.res.val.versions = present_versions(last.before)
        /\ (written.tamper = "none" /\ origin \in SparseFiles) =>
               /\ last.res.ok
               /\ Len(last.res.val.versions)
                      = 3 - Cardinality(absent_versions(last.before))
        /\ (/\ written.tamper = "remove_entry"
            /\ load_document(origin).ok
            /\ Cardinality(absent_versions(last.before))
                   > Cardinality(absent_versions(origin))) =>
               /\ ~last.res.ok
               /\ last.res.err.kind = "Integrity"
               /\ last.res.err.what = "payload checksum mismatch"

\* the archive that lists three versions and holds the first and the third
\* was loaded
C29_Witness ==
    /\ last.op = "load_grokedoc"
    /\ last.res.ok
    /\ absent_versions(last.before) = {2}
    /\ Len(last.res.val.versions) = 2
    /\ last.res.val.versions[2].versionNumber = 3

\* C30: every version built by create_version or restore_version has the
\* SHA-256 hex of its content as contentHash and a snapshot that reconstructs
\* to its content (baseText the content, one Original chunk with offset 0 and
\* the content's length); it is stored as built, and a restored version has
\* the contentHash and the content of its target.
C30_VersionSnapshot ==
    (last.op \in {"create_version", "restore_version"} /\ last.res.ok) =>
        LET version == last.res.val.version
            stored  == stored_versions(disk)
        IN  /\ version.content_hash = sha256_hex(as_bytes(version.content))
            /\ version.metadata
                   = PieceTableContent(version.content,
                         <<PieceChunk("original", Some(0), Some(str_len(version.content)),
                                      Some("baseText"), None, None)>>)
            /\ to_text(version.metadata) = {Ok(version.content)}
            /\ stored[Len(stored)] = to_value(version)
            /\ last.op = "create_version" => version.content = last.req.content
            /\ last.op = "restore_version" =>
                   LET target == records_with_id(last.before, last.req.version_id)[1]
                   IN  /\ version.content = target.content
                       /\ version.content_hash = target.contentHash
                       /\ version.id # target.id

\* the second version of a found document, three characters long, was restored
C30_Witness ==
    /\ last.op = "restore_version"
    /\ last.res.ok
    /\ last.req.version_id = 102
    /\ str_len(last.res.val.version.content) = 3
    /\ last.res.val.version.version_number = 3

-----------------------------------------------------------------------------
(* C31 - C39 *)

\* the lines of a hunk that stand for a line of the old text, of the new text
old_side(lines) == SelectSeq(lines, LAMBDA l : l.kind \in {"context", "deletion"})
new_side(lines) == SelectSeq(lines, LAMBDA l : l.kind \in {"context", "addition"})

\* C31: in every hunk of a version diff a Deletion line carries an oldLine
\* and no newLine, an Addition line a newLine and no oldLine, a Context line
\* both; the oldLine values of the Context and Deletion lines are consecutive
\* from oldStart, the newLine values of the Context and Addition lines
\* consecutive from newStart.
C31_LineNumbers ==
    last.op = "compute_diff" =>
        \A h \in DOMAIN last.res.hunks :
            LET hunk == last.res.hunks[h]
            IN  /\ \A i \in DOMAIN hunk.lines :
                       LET l == hunk.lines[i]
                       IN  /\ l.kind \in {"context", "deletion", "addition"}
                           /\ (l.old_line # None) <=> (l.kind # "addition")
                           /\ (l.new_line # None) <=> (l.kind # "deletion")
                /\ \A i \in DOMAIN old_side(hunk.lines) :
                       old_side(hunk.lines)[i].old_line = Some(hunk.old_start + i - 1)
                /\ \A i \in DOMAIN new_side(hunk.lines) :
                       new_side(hunk.lines)[i].new_line = Some(hunk.new_start + i - 1)

\* the first and the last line changed: two hunks, the second one from line 6,
\* with lines of all three kinds
C31_Witness ==
    /\ last.op = "compute_diff"
    /\ Len(last.res.hunks) = 2
    /\ last.res.hunks[2].old_start = MaxLines - ContextRadius
    /\ {l.kind : l \in {last.res.hunks[2].lines[i] :
                           i \in DOMAIN last.res.hunks[2].lines}}
           = {"context", "deletion", "addition"}

\* what unifiedDiff holds for one hunk: the header, then a line for each of
\* the hunk's lines with the sign of its kind
unified_hunk(hunk) ==
    <<[prefix |-> "@@", text |-> hunk.header]>>
    \o [i \in DOMAIN hunk.lines |->
           [prefix |-> IF hunk.lines[i].kind = "deletion" THEN "-"
                       ELSE IF hunk.lines[i].kind = "addition" THEN "+" ELSE " ",
            text |-> hunk.lines[i].content]]

\* C32: each hunk's header is "@@ -oldStart,oldLines +newStart,newLines @@"
\* with starts counted from 1, oldLines the number of the hunk's Context and
\* Deletion lines and newLines the number of its Context and Addition lines;
\* the same header precedes the hunk's lines in unifiedDiff.
C32_HunkHeader ==
    last.op = "compute_diff" =>
        /\ \A h \in DOMAIN last.res.hunks :
               LET hunk == last.res.hunks[h]
               IN  /\ hunk.header = [old_start |-> hunk.old_start,
                                     old_lines |-> hunk.old_lines,
                                     new_start |-> hunk.new_start,
                                     new_lines |-> hunk.new_lines]
                   /\ hunk.old_lines = Len(old_side(hunk.lines))
                   /\ hunk.new_lines = Len(new_side(hunk.lines))
                   /\ hunk.old_start >= 1
                   /\ hunk.new_start >= 1
                   /\ hunk.old_start + hunk.old_lines
                          <= Len(from_lines(last.req.from)) + 1
                   /\ hunk.new_start + hunk.new_lines
                          <= Len(from_lines(last.req.to)) + 1
        /\ last.res.unified_diff
               = <<[prefix |-> "---", text |-> 1], [prefix |-> "+++", text |-> 2]>>
                 \o Concat([h \in DOMAIN last.res.hunks |->
                               unified_hunk(last.res.hunks[h])])

\* lines 4 and 5 changed: one hunk "@@ -1,8 +1,8 @@"
C32_Witness ==
    /\ last.op = "compute_diff"
    /\ last.req.from = NumberedText({})
    /\ last.req.to = NumberedText({4, 5})
    /\ Len(last.res.hunks) = 1
    /\ last.res.hunks[1].header
           = [old_start |-> 1, old_lines |-> 5 + ContextRadius,
              new_start |-> 1, new_lines |-> 5 + ContextRadius]

\* how many lines of a kind the hunks of a version diff hold
lines_of_kind(version_diff_result, kind) ==
    Len(contents_of(all_lines(version_diff_result), kind))

\* the counters are the numbers of lines of the three kinds over all hunks,
\* and the similarity is unchanged / total, from 0 to 1, and 1.0 for total 0
counts_and_similarity(res) ==
    LET total == res.additions + res.deletions + res.unchanged
    IN  /\ res.additions = lines_of_kind(res, "addition")
        /\ res.deletions = lines_of_kind(res, "deletion")
        /\ res.unchanged = lines_of_kind(res, "context")
        /\ total > 0 => res.similarity = Ratio(res.unchanged, total)
        /\ total = 0 => IsOne(res.similarity)
        /\ res.similarity.den > 0
        /\ 0 <= res.similarity.num
        /\ res.similarity.num <= res.similarity.den

\* C33 as stated: additions, deletions and unchanged are the numbers of
\* Addition, Deletion and Context lines over all hunks; similarity is
\* unchanged / total, between 0 and 1, and 1.0 when the total is 0, the total
\* being 0 only when both texts are empty.
C33_TotalZeroOnlyIfEmpty ==
    last.op = "compute_diff" =>
        /\ counts_and_similarity(last.res)
        /\ last.res.additions + last.res.deletions + last.res.unchanged = 0
               => (last.req.from = <<>> /\ last.req.to = <<>>)

\* C33 (amended): additions, deletions and unchanged are the numbers of
\* Addition, Deletion and Context lines over all hunks; similarity is
\* unchanged / total, between 0 and 1, and 1.0 when the total is 0, the total
\* being 0 exactly when the two texts are identical (empty or not): identical
\* texts give no hunks.
C33_TotalZeroIffIdentical ==
    last.op = "compute_diff" =>
        /\ counts_and_similarity(last.res)
        /\ last.res.additions + last.res.deletions + last.res.unchanged = 0
               <=> last.req.from = last.req.to
        /\ last.req.from = last.req.to => last.res.hunks = <<>>

\* a text of several lines compared with itself: no lines, similarity 1.0
C33_Witness ==
    /\ last.op = "compute_diff"
    /\ last.req.from = NumberedText({})
    /\ last.req.to = NumberedText({})
    /\ last.res.additions + last.res.deletions + last.res.unchanged = 0
    /\ IsOne(last.res.similarity)

\* the contents of a hunk's lines that stand for lines of the new text
new_contents(hunk) ==
    [i \in DOMAIN new_side(hunk.lines) |-> new_side(hunk.lines)[i].content]

RECURSIVE replay(_, _)
\* the hunks applied to a list of lines, the last hunk first: the lines from
\* oldStart on, oldLines many, give way to the hunk's Context and Addition lines
replay(lines, hunks) ==
    IF hunks = <<>> THEN lines
    ELSE LET hunk == hunks[Len(hunks)]
         IN  replay(SubSeq(lines, 1, hunk.old_start - 1)
                    \o new_contents(hunk)
                    \o SubSeq(lines, hunk.old_start + hunk.old_lines, Len(lines)),
                    SubSeq(hunks, 1, Len(hunks) - 1))

C35_ErrorLeavesFile ==
    \A s \in Savers :
        (/\ last.op = "save_document"
         /\ last.req.saver = s
         /\ ~last.res.ok
         /\ \A t \in Savers \ {s} : savers[t].pc = "idle") =>
            disk = origin

\* the records' versionNumbers rise strictly along the list (and so differ)
strictly_increasing(versions) ==
    \A i \in DOMAIN versions, j \in DOMAIN versions :
        i < j => versions[i].versionNumber < versions[j].versionNumber

\* C36: after any sequence of create_version, restore_version and
\* delete_version calls, one at a time, on a path that had no file at first,
\* the stored records' versionNumbers are pairwise distinct and rise strictly
\* in stored order; and each successful command keeps that order in a file
\* that had it.
C36_NumbersIncrease ==
    /\ origin = NoFile => strictly_increasing(stored_versions(disk))
    /\ (/\ last.op \in VersionCommands
        /\ last.res.ok
        /\ strictly_increasing(stored_versions(last.before))) =>
           strictly_increasing(stored_versions(disk))

\* a path without a file, a create_version that stored version 1 and a
\* further command after it
C36_Witness ==
    /\ origin = NoFile
    /\ clock >= 2
    /\ last.op \in VersionCommands
    /\ Len(stored_versions(disk)) >= 1
    /\ stored_versions(disk)[1].versionNumber = 1

\* the version a create_version call built and returns: the last record of
\* the payload it saves
returned_version(s) == savers[s].payload.versions[Len(savers[s].payload.versions)]

\* C37: when two create_version calls on one path overlap and both return
\* success, both returned versions are stored in the file afterwards and
\* their versionNumbers differ.
C37_BothVersionsStored ==
    (\A s \in Savers : savers[s].pc = "done") =>
        /\ \A s \in Savers :
               \E i \in DOMAIN stored_versions(disk) :
                   stored_versions(disk)[i] = returned_version(s)
        /\ returned_version(1).versionNumber # returned_version(2).versionNumber

\* the payloads of the completed saves a load may return: the one the file
\* held when the save began, and the one being saved
saved_payloads ==
    (IF load_document(origin).ok THEN {load_document(origin).val} ELSE {})
    \cup {savers[s].payload : s \in {t \in Savers : savers[t].pc # "idle"}}

trailing_break_only(a, b) ==
    /\ a # <<>>
    /\ a[Len(a)] # "\n"
    /\ b = a \o <<"\n">>

====
